---- MODULE Spec2Model ----
(***************************************************************************)
(* A model of code-rag: the chunker, the vector store (LanceDB table       *)
(* "code_chunks"), the lexical store (tantivy index behind BM25Index),     *)
(* the batch indexer (commands/index.rs), the hybrid searcher (search.rs)  *)
(* and the HTTP search handler (server.rs).                                *)
(*                                                                         *)
(* Conventions.                                                            *)
(*  - A path is a record [stem, ext]; stem is the sequence of characters   *)
(*    before the extension, so that the separator characters "/" and "\\"  *)
(*    are visible to the normalisation done by chunk_file.                 *)
(*  - A text is a sequence of characters.                                  *)
(*  - format!("{}-{}-{}", filename, line_start, line_end) is modelled by   *)
(*    the triple <<filename, line_start, line_end>>: the two trailing      *)
(*    decimal numbers contain no "-", so the formatted string determines   *)
(*    the triple and the triple determines the string.                     *)
(***************************************************************************)
EXTENDS Integers, Sequences, FiniteSets, TLC

VARIABLES
    \* ---- chunker harness (SpecChunk) ----
    ck_cfg,          \* CodeChunker { max_chunk_size, chunk_overlap }
    ck_in,           \* the arguments of the pending chunk_file call
    ck_out,          \* the Vec<CodeChunk> the last chunk_file call returned
    ck_pc,           \* "ready" | "done"
    \* ---- the world the indexer runs in ----
    fs,              \* file system under the indexed root: path -> file or NoFile
    c3,              \* LanceDB table: sequence of rows in insertion order
    c4,              \* tantivy index: [writer, committed, commits]
    \* ---- one index_codebase run ----
    run,             \* the run's options and local variables (pc, buffers, ...)
    hist,            \* observations about the current run (history only)
    runs_left,       \* index runs still allowed in this behaviour
    nedits,          \* number of file-system edits so far
    fail_left,       \* embedding/store failures still to be injected
    \* ---- search harness (SpecSearch) ----
    srv,             \* the HTTP server: the cache of its WorkspaceManager
    sq,              \* the last search request: who asked what
    sres,            \* the response to the last search
    \* ---- ContextOptimizer harness (SpecOptimize) ----
    opt,             \* one optimize call: its arguments, locals and result
    \* ---- split_text harness (SpecSplit) ----
    st,              \* one split_text call: its arguments and result
    \* ---- WorkspaceManager under concurrent callers (SpecContexts) ----
    wm,              \* the manager's two maps, its callers and what was loaded
    \* ---- file watcher (SpecWatch) ----
    wt,              \* start_watcher's loop: pending events, the last one handled
    \* ---- the start command (SpecStart) ----
    sp,              \* run's position, its tasks and the handles open on each index directory
    \* ---- one BM25Index handle (SpecHandle) ----
    bh               \* the handle open on the index c4, and its last call

vars == <<ck_cfg, ck_in, ck_out, ck_pc, fs, c3, c4, run, hist,
          runs_left, nedits, fail_left, srv, sq, sres, opt, st, wm, wt, sp, bh>>

ckVars    == <<ck_cfg, ck_in, ck_out, ck_pc>>
idxVars   == <<fs, c3, c4, run, hist, runs_left, nedits, fail_left>>
srchVars  == <<srv, sq, sres>>
laterVars == <<opt, st, wm, wt, sp, bh>>

\* What the actions of one part of the program leave alone.
ckOthers   == <<idxVars, srchVars, laterVars>>
idxOthers  == <<ckVars, srchVars, laterVars>>
srchOthers == <<ckVars, fs, run, hist, runs_left, nedits, fail_left, laterVars>>
optOthers  == <<ckVars, idxVars, srchVars, st, wm, wt, sp, bh>>
stOthers   == <<ckVars, idxVars, srchVars, opt, wm, wt, sp, bh>>
wmOthers   == <<ckVars, idxVars, srchVars, opt, st, wt, sp, bh>>
wtOthers   == <<ckVars, run, hist, runs_left, nedits, fail_left, srchVars, opt, st, wm, sp, bh>>
spOthers   == <<ckVars, idxVars, srchVars, opt, st, wm, wt, bh>>
bhOthers   == <<ckVars, fs, c3, run, hist, runs_left, nedits, fail_left, srchVars, opt, st, wm, wt, sp>>

\* The parts that a specification does not exercise stay as constructed.
LaterIdle ==
    /\ opt = <<>>
    /\ st = <<>>
    /\ wm = <<>>
    /\ wt = <<>>
    /\ sp = <<>>
    /\ bh = <<>>

(***************************************************************************)
(* Bounds of the model.                                                    *)
(***************************************************************************)
MaxChunkSize == 3      \* largest max_chunk_size the chunker harness tries
MaxOverlap   == 2      \* largest chunk_overlap the chunker harness tries
MaxMtime     == 2      \* largest mtime a chunk_file call is given

Min(a, b) == IF a < b THEN a ELSE b
Max(a, b) == IF a > b THEN a ELSE b
Range(s)  == {s[i] : i \in 1..Len(s)}

RECURSIVE Concat(_)
Concat(ss) == IF ss = <<>> THEN <<>> ELSE Head(ss) \o Concat(Tail(ss))

(***************************************************************************)
(* Paths.                                                                  *)
(***************************************************************************)
MkPath(stem, ext) == [stem |-> stem, ext |-> ext]

\* filename.replace("\\", "/")
ReplaceBackslash(p) ==
    [p EXCEPT !.stem = [i \in 1..Len(p.stem) |->
                          IF p.stem[i] = "\\" THEN "/" ELSE p.stem[i]]]

\* Path::extension
Extension(p) == p.ext

(***************************************************************************)
(* CodeChunker (src/src/indexer.rs).                                       *)
(***************************************************************************)
\* get_language(ext).is_some()
LanguageExts ==
    {"rs", "py", "go", "c", "h", "cpp", "hpp", "cc", "cxx", "js", "jsx",
     "ts", "tsx", "java", "cs", "rb", "php", "html", "css", "sh", "bash",
     "ps1", "yaml", "yml", "json", "zig", "ex", "exs", "hs", "sol"}

get_language(ext) == ext \in LanguageExts

ScriptExts == {"py", "js", "ts", "jsx", "tsx", "rb", "lua", "sh", "bash", "ps1"}

SemanticKinds ==
    {"function_item", "impl_item", "struct_item", "enum_item", "mod_item",
     "const_item", "static_item",
     "function_definition", "class_definition", "function_statement",
     "function_declaration", "method_declaration", "type_declaration",
     "class_specifier", "struct_specifier",
     "class_declaration", "method_definition", "arrow_function",
     "interface_declaration", "record_declaration",
     "method", "class",
     "script_element", "style_element",
     "rule_set", "media_statement", "keyframes_statement",
     "param_block",
     "block_mapping_pair", "pair", "object",
     "Decls", "FnProto", "ContainerField",
     "call", "do_block",
     "signature", "function",
     "contract_declaration", "interface_definition", "library_definition"}

ScriptKinds ==
    {"if_statement", "flow_statement", "expression_statement", "assignment",
     "variable_declaration", "lexical_declaration", "function_call", "call",
     "command", "pipeline", "if_expression", "for_expression"}

\* kind.contains("class") || kind.contains("impl") || kind.contains("struct")
\*   || kind == "element" || kind == "stylesheet", over the node kinds the
\* grammars of this model produce.
ContainerKinds ==
    {"class_definition", "class_specifier", "class_declaration", "class",
     "impl_item", "struct_item", "struct_specifier", "element", "stylesheet"}

\* The single-node size guard: 10 * 1024 * 1024 bytes.
MaxNodeBytes == 10485760

\* A loop that starts each chunk where the previous one ended.
RECURSIVE split_loop_abutting(_, _, _, _)
split_loop_abutting(chars, start, max_chunk_size, chunk_overlap) ==
    LET total == Len(chars)
        end   == Min(start + max_chunk_size, total)
        s     == SubSeq(chars, start + 1, end)
    IN  IF ~(start < total) THEN <<>>
        ELSE IF end = total THEN <<s>>
        ELSE <<s>> \o split_loop_abutting(chars, start + max_chunk_size, max_chunk_size, chunk_overlap)

\* "Ensure we move forward and respect overlap": the step of the loop;
\* and a step that moves a whole window on when the overlap leaves none.
split_step_whole_window(max_chunk_size, chunk_overlap) ==
    IF max_chunk_size > chunk_overlap THEN max_chunk_size - chunk_overlap ELSE max_chunk_size
split_step(max_chunk_size, chunk_overlap) ==
    IF max_chunk_size > chunk_overlap THEN max_chunk_size - chunk_overlap ELSE 1

\* One loop of split_text from character offset start (0-based).
RECURSIVE split_loop(_, _, _, _)
split_loop(chars, start, max_chunk_size, chunk_overlap) ==
    LET total == Len(chars)
        end   == Min(start + max_chunk_size, total)
        s     == SubSeq(chars, start + 1, end)
        step  == split_step(max_chunk_size, chunk_overlap)
    IN  IF ~(start < total) THEN <<>>
        ELSE IF end = total THEN <<s>>
        ELSE <<s>> \o split_loop(chars, start + step, max_chunk_size, chunk_overlap)

split_text(text, max_chunk_size, chunk_overlap) ==
    IF Len(text) <= max_chunk_size THEN <<text>>
    ELSE split_loop(text, 0, max_chunk_size, chunk_overlap)

\* A syntax-tree node: [kind, row0, row1, len, text, kids]; rows are 0-based
\* as tree-sitter reports them, len = end_byte - start_byte.
Node(kind, row0, row1, text, kids) ==
    [kind |-> kind, row0 |-> row0, row1 |-> row1, len |-> Len(text),
     text |-> text, kids |-> kids]

MkChunk(filename, code, ls, le, mtime) ==
    [filename |-> filename, code |-> code, line_start |-> ls,
     line_end |-> le, last_modified |-> mtime]

RECURSIVE traverse(_, _, _, _, _)
RECURSIVE traverse_children(_, _, _, _, _)
traverse_children(kids, cfg, filename, mtime, depth) ==
    IF kids = <<>> THEN <<>>
    ELSE traverse(Head(kids), cfg, filename, mtime, depth)
         \o traverse_children(Tail(kids), cfg, filename, mtime, depth)

traverse(node, cfg, filename, mtime, depth) ==
    LET ext == Extension(filename)
        is_script_lang == ext \in ScriptExts
        is_semantic_chunk == node.kind \in SemanticKinds
        is_ruby_module == ext = "rb" /\ node.kind = "module"
        is_script_chunk == /\ is_script_lang
                           /\ (depth = 1 \/ (ext = "ps1" /\ depth = 2))
                           /\ node.kind \in ScriptKinds
        is_chunkable == is_semantic_chunk \/ is_ruby_module \/ is_script_chunk
        descend == traverse_children(node.kids, cfg, filename, mtime, depth + 1)
        sub_chunks == split_text(node.text, cfg.max_chunk_size, cfg.chunk_overlap)
        emitted ==
            IF Len(node.text) > cfg.max_chunk_size
            THEN [i \in 1..Len(sub_chunks) |->
                    MkChunk(filename, sub_chunks[i], node.row0 + 1, node.row1 + 1, mtime)]
            ELSE <<MkChunk(filename, node.text, node.row0 + 1, node.row1 + 1, mtime)>>
    IN  IF is_chunkable /\ node.len > MaxNodeBytes THEN <<>>
        ELSE IF is_chunkable /\ node.len > 0
             THEN IF node.kind \in ContainerKinds
                  THEN emitted \o descend
                  ELSE emitted
        ELSE descend

\* A file's bytes as the chunker sees them: binary (a NUL among the first
\* 1024 bytes) or text that tree-sitter parses to `tree`; tree = <<>> stands
\* for parse_with returning None.
chunk_file(cfg, filename, file, mtime) ==
    LET normalized_filename == ReplaceBackslash(filename)
        ext == Extension(normalized_filename)
    IN  IF ~get_language(ext) THEN <<>>
        ELSE IF file.binary THEN <<>>
        ELSE IF file.tree = <<>> THEN <<>>
        ELSE traverse(file.tree[1], cfg, normalized_filename, mtime, 0)

\* format!("{}-{}-{}", c.filename, c.line_start, c.line_end)
ChunkId(c) == <<c.filename, c.line_start, c.line_end>>

(***************************************************************************)
(* Storage (src/src/storage.rs): the LanceDB table "code_chunks".          *)
(* A row holds the columns of the schema declared by init/add_chunks: id,  *)
(* filename, code, line_start, line_end, last_modified.  The schema has no *)
(* workspace column.  The callers in commands/index.rs pass the workspace  *)
(* as a first argument; the row keeps that value in `workspace` so that    *)
(* "the chunks of workspace W" can be spoken of, and the operations of     *)
(* storage.rs below never read it.                                         *)
(***************************************************************************)
MkRow(workspace, id, c) ==
    [id |-> id, filename |-> c.filename, code |-> c.code,
     line_start |-> c.line_start, line_end |-> c.line_end,
     last_modified |-> c.last_modified, workspace |-> workspace]

\* table.add(reader): one record batch appended; ids and chunks are the
\* row-parallel column arrays.
Storage_add_chunks(table, workspace, ids, chunks) ==
    table \o [i \in 1..Len(chunks) |-> MkRow(workspace, ids[i], chunks[i])]

\* Projection scan of (filename, last_modified) over every row of the table;
\* metadata.insert(fname, mtime) keeps the value of the last row scanned.
RECURSIVE metadata_scan(_, _)
metadata_scan(table, acc) ==
    IF table = <<>> THEN acc
    ELSE LET r == Head(table)
             keys == DOMAIN acc \cup {r.filename}
         IN  metadata_scan(Tail(table),
                 [f \in keys |-> IF f = r.filename THEN r.last_modified ELSE acc[f]])

EmptyMap == [f \in {} |-> 0]

Storage_get_indexed_metadata(table, workspace) == metadata_scan(table, EmptyMap)

\* table.delete("filename = '<filename>'")
Storage_delete_file_chunks(table, filename) ==
    SelectSeq(table, LAMBDA r : r.filename # filename)

\* batch_delete_by_filename(workspace, filenames): remove all chunks in the
\* workspace matching any given filename.
Storage_batch_delete_files(table, filenames, workspace) ==
    SelectSeq(table, LAMBDA r : ~(r.filename \in Range(filenames) /\ r.workspace = workspace))

(***************************************************************************)
(* BM25Index (src/src/bm25.rs): the tantivy index.  The writer's view is   *)
(* the live documents in doc-id order with every buffered operation applied in *)
(* opstamp order (a delete removes the matching documents added before     *)
(* it, committed or not); commit makes the writer's view the durable one.  *)
(* An index is [writer, committed, commits]: the two views and the number  *)
(* of commit calls made through the handle since it was opened.            *)
(***************************************************************************)
\* Index::open_in_dir / create_in_dir and index.writer(50_000_000): the
\* writer starts from what is committed on disk.
BM25_new(committed) == [writer |-> committed, committed |-> committed, commits |-> 0]

MkDoc(workspace, c) ==
    [id |-> ChunkId(c), filename |-> c.filename, code |-> c.code,
     line_start |-> c.line_start, line_end |-> c.line_end,
     workspace |-> workspace]

\* for chunk in chunks { writer.delete_term(id); writer.add_document(doc) }
RECURSIVE add_documents(_, _, _)
add_documents(docs, chunks, workspace) ==
    IF chunks = <<>> THEN docs
    ELSE LET c == Head(chunks)
             kept == SelectSeq(docs, LAMBDA d : d.id # ChunkId(c))
         IN  add_documents(Append(kept, MkDoc(workspace, c)), Tail(chunks), workspace)

\* writer.commit(): Ok makes the writer's view durable, Err leaves the
\* durable view as it was.
BM25_commit(index, ok) ==
    [index EXCEPT !.committed = IF ok THEN index.writer ELSE @,
                  !.commits = @ + 1]

\* (Mutant) add_chunks that ends with writer.commit().
BM25_add_chunks_committing(index, chunks, workspace) ==
    BM25_commit([index EXCEPT !.writer = add_documents(@, chunks, workspace)], TRUE)

\* add_chunks: the loop over the chunks, and no commit ("Note: Does NOT
\* commit").
BM25_add_chunks(index, chunks, workspace) ==
    [index EXCEPT !.writer = add_documents(@, chunks, workspace)]

\* writer.delete_query(filename AND workspace)
BM25_delete_file(index, filename, workspace) ==
    [index EXCEPT !.writer =
        SelectSeq(@, LAMBDA d : ~(d.filename = filename /\ d.workspace = workspace))]

\* batch_delete_file(filenames, workspace): delete by compound predicate
\* (filename AND workspace) for each filename; does not commit.
BM25_batch_delete_files(index, filenames, workspace) ==
    [index EXCEPT !.writer =
        SelectSeq(@, LAMBDA d :
            ~(d.filename \in Range(filenames) /\ d.workspace = workspace))]

(***************************************************************************)
(* Source files of the model: what tree-sitter parses them to.             *)
(***************************************************************************)
TextFile(tree)  == [binary |-> FALSE, tree |-> <<tree>>, oversize |-> FALSE]

\* fn f() {..} on lines 1-3
F_fn == TextFile(Node("source_file", 0, 2, <<"f", "n">>,
            <<Node("function_item", 0, 2, <<"f", "n">>, <<>>)>>))
\* two functions, lines 1-3 and 5-7
F_two == TextFile(Node("source_file", 0, 6, <<"f", "n", "g", "h">>,
            <<Node("function_item", 0, 2, <<"f", "n">>, <<>>),
              Node("function_item", 4, 6, <<"g", "h">>, <<>>)>>))
\* one long function on lines 1-3
F_long == TextFile(Node("source_file", 0, 2, <<"a", "b", "c", "d", "e">>,
            <<Node("function_item", 0, 2, <<"a", "b", "c", "d", "e">>, <<>>)>>))
\* impl X { fn j() {} } written on one line
F_nested == TextFile(Node("source_file", 0, 0, <<"i", "j">>,
            <<Node("impl_item", 0, 0, <<"i", "j">>,
                <<Node("function_item", 0, 0, <<"j">>, <<>>)>>)>>))
\* fn p() {} fn q() {} written on one line
F_sameline == TextFile(Node("source_file", 0, 0, <<"p", "q">>,
            <<Node("function_item", 0, 0, <<"p">>, <<>>),
              Node("function_item", 0, 0, <<"q">>, <<>>)>>))
\* only a comment
F_none == TextFile(Node("source_file", 0, 0, <<"c">>,
            <<Node("line_comment", 0, 0, <<"c">>, <<>>)>>))
\* a script: a top-level statement and a function holding a statement
F_script == TextFile(Node("module", 0, 4, <<"x", "d", "e">>,
            <<Node("expression_statement", 0, 0, <<"x">>, <<>>),
              Node("function_definition", 2, 4, <<"d", "e">>,
                <<Node("expression_statement", 3, 3, <<"e">>, <<>>)>>)>>))
\* a single node of more than 10 MiB; its bytes are never read
F_hugenode == TextFile(Node("source_file", 0, 9, <<>>,
            <<[Node("function_item", 0, 9, <<>>, <<>>) EXCEPT !.len = MaxNodeBytes + 1]>>))
F_binary   == [binary |-> TRUE, tree |-> <<>>, oversize |-> FALSE]
F_unparsed == [binary |-> FALSE, tree |-> <<>>, oversize |-> FALSE]

P_a_rs  == MkPath(<<"a">>, "rs")
P_db_rs == MkPath(<<"d", "\\", "b">>, "rs")
P_s_py  == MkPath(<<"s">>, "py")
P_n_txt == MkPath(<<"n">>, "txt")

CkFiles == {F_fn, F_two, F_long, F_nested, F_sameline, F_none, F_script,
            F_hugenode, F_binary, F_unparsed}
CkPaths == {P_a_rs, P_db_rs, P_s_py, P_n_txt}

(***************************************************************************)
(* SpecChunk: chunk_file applied to every file, path and configuration.    *)
(***************************************************************************)
CkInputs == [filename : CkPaths, file : CkFiles, mtime : 0..MaxMtime]
CkCfgs   == [max_chunk_size : 1..MaxChunkSize, chunk_overlap : 0..MaxOverlap]

\* The parts of the state the chunker does not use stay as they are.
CkOthersIdle ==
    /\ fs = <<>> /\ c3 = <<>> /\ c4 = BM25_new(<<>>)
    /\ run = <<>> /\ hist = <<>> /\ runs_left = 0 /\ nedits = 0 /\ fail_left = 0
    /\ srv = <<>> /\ sq = <<>> /\ sres = <<>>
    /\ LaterIdle

CkInit ==
    /\ ck_cfg \in CkCfgs
    /\ ck_in \in CkInputs
    /\ ck_out = <<>>
    /\ ck_pc = "ready"
    /\ CkOthersIdle

CkChunkFile ==
    /\ ck_pc = "ready"
    /\ ck_out' = chunk_file(ck_cfg, ck_in.filename, ck_in.file, ck_in.mtime)
    /\ ck_pc' = "done"
    /\ UNCHANGED <<ck_cfg, ck_in>>
    /\ UNCHANGED ckOthers

CkAgain ==
    /\ ck_pc = "done"
    /\ ck_in' \in CkInputs
    /\ ck_out' = <<>>
    /\ ck_pc' = "ready"
    /\ UNCHANGED ck_cfg
    /\ UNCHANGED ckOthers

(***************************************************************************)
(* The indexed tree and the configuration of the index runs.               *)
(***************************************************************************)
P_t_x_rs == MkPath(<<"t", "/", "x">>, "rs")

IdxPaths      == {P_a_rs, P_db_rs, P_n_txt, P_t_x_rs}
EditablePaths == {P_a_rs, P_db_rs}
Workspaces    == {"default", "w1"}

\* AppConfig of the index runs.
exclusions          == {<<"t", "/">>}
max_file_size_bytes == 10485760
IdxChunkSize        == 3
IdxOverlap          == 1
idx_chunker == [max_chunk_size |-> IdxChunkSize, chunk_overlap |-> IdxOverlap]

\* What a file of the tree may hold.
FileOf(content) ==
    CASE content = "fn"   -> F_fn
      [] content = "two"  -> F_two
      [] content = "long" -> F_long
      [] content = "none" -> F_none
      [] content = "big"  -> [F_fn EXCEPT !.oversize = TRUE]
Contents == {"fn", "two", "long", "none", "big"}

\* fs::metadata(path).len()
FileSize(file) ==
    IF file.oversize THEN max_file_size_bytes + 1
    ELSE IF file.tree = <<>> THEN 1 ELSE Len(file.tree[1].text)

NoFile == [present |-> FALSE, mtime |-> 0, content |-> "none"]
MkFile(mtime, content) == [present |-> TRUE, mtime |-> mtime, content |-> content]

\* path_str.contains(ex)
Contains(str, ex) ==
    \E i \in 0..(Len(str) - Len(ex)) : SubSeq(str, i + 1, i + Len(ex)) = ex

MaxRuns  == 3      \* index runs in one behaviour without failures
MaxFaultyRuns == 2 \* index runs in one behaviour with failures
MaxEdits == 1      \* file-system edits in one behaviour
MaxFail  == 1      \* injected embedding/store failures in one behaviour
MaxBatch == 3      \* the larger of the two batch sizes tried
BatchSizes == {1, MaxBatch}

(***************************************************************************)
(* process_batch (src/src/commands/index.rs).  `fl` says which of the      *)
(* calls of this flush fails; t3 and t4 are the table and the writer's     *)
(* view.  The result carries the new stores, the log of the store calls    *)
(* issued, and the number of chunks embedded.                              *)
(***************************************************************************)
NoFail == [del3 |-> FALSE, del4 |-> FALSE, embed |-> FALSE, add3 |-> FALSE,
           add4 |-> FALSE]
FailureChoices ==
    {NoFail, [NoFail EXCEPT !.del3 = TRUE], [NoFail EXCEPT !.del4 = TRUE],
     [NoFail EXCEPT !.embed = TRUE], [NoFail EXCEPT !.add3 = TRUE],
     [NoFail EXCEPT !.add4 = TRUE]}

LogEntry(op, store, files) == [op |-> op, store |-> store, files |-> files]

ChunkFiles(chunks) == {chunks[i].filename : i \in 1..Len(chunks)}

\* (Mutant) a flush that returns the error of a failed call.
process_batch_result_err(failed) == ~failed

\* What process_batch returns to `process_batch(..).await?`: Ok(()) on
\* every path (lines 289-291 and 333); a failed call is logged with
\* error!(..) and not returned.  TRUE stands for Ok.
process_batch_result(failed) == TRUE

\* (Mutant) a flush that embeds and adds the buffered chunks first and
\* applies the pending deletes afterwards.
process_batch_adds_first(chunks, pending_deletes, workspace, t3, t4, fl) ==
    LET dels == pending_deletes # <<>>
        adds == chunks # <<>> /\ ~fl.embed
        ids == [i \in 1..Len(chunks) |-> ChunkId(chunks[i])]
        t3a == IF adds /\ ~fl.add3
               THEN Storage_add_chunks(t3, workspace, ids, chunks) ELSE t3
        t4a == IF adds /\ ~fl.add4 THEN BM25_add_chunks(t4, chunks, workspace) ELSE t4
        t3b == IF dels /\ ~fl.del3
               THEN Storage_batch_delete_files(t3a, pending_deletes, workspace) ELSE t3a
        t4b == IF dels /\ ~fl.del4
               THEN BM25_batch_delete_files(t4a, pending_deletes, workspace) ELSE t4a
        log2 == IF adds
                THEN <<LogEntry("add", "c3", ChunkFiles(chunks)),
                       LogEntry("add", "c4", ChunkFiles(chunks))>>
                ELSE <<>>
        log1 == IF dels
                THEN <<LogEntry("delete", "c3", Range(pending_deletes)),
                       LogEntry("delete", "c4", Range(pending_deletes))>>
                ELSE <<>>
    IN  [c3 |-> t3b, c4 |-> t4b, log |-> log2 \o log1,
         embedded |-> IF adds THEN Len(chunks) ELSE 0,
         failed |-> \/ dels /\ (fl.del3 \/ fl.del4)
                    \/ chunks # <<>> /\ (fl.embed \/ fl.add3 \/ fl.add4),
         ok |-> TRUE]

process_batch(chunks, pending_deletes, workspace, t3, t4, fl) ==
    LET dels == pending_deletes # <<>>
        t3a == IF dels /\ ~fl.del3
               THEN Storage_batch_delete_files(t3, pending_deletes, workspace) ELSE t3
        t4a == IF dels /\ ~fl.del4
               THEN BM25_batch_delete_files(t4, pending_deletes, workspace) ELSE t4
        log1 == IF dels
                THEN <<LogEntry("delete", "c3", Range(pending_deletes)),
                       LogEntry("delete", "c4", Range(pending_deletes))>>
                ELSE <<>>
        ids == [i \in 1..Len(chunks) |-> ChunkId(chunks[i])]
        t3b == IF fl.add3 THEN t3a
               ELSE Storage_add_chunks(t3a, workspace, ids, chunks)
        t4b == IF fl.add4 THEN t4a ELSE BM25_add_chunks(t4a, chunks, workspace)
        log2 == <<LogEntry("add", "c3", ChunkFiles(chunks)),
                  LogEntry("add", "c4", ChunkFiles(chunks))>>
        fired == \/ dels /\ (fl.del3 \/ fl.del4)
                 \/ chunks # <<>> /\ fl.embed
                 \/ chunks # <<>> /\ ~fl.embed /\ (fl.add3 \/ fl.add4)
    IN  IF chunks = <<>>
        THEN [c3 |-> t3a, c4 |-> t4a, log |-> log1, embedded |-> 0, failed |-> fired,
              ok |-> process_batch_result(fired)]
        ELSE IF fl.embed
        THEN [c3 |-> t3a, c4 |-> t4a, log |-> log1, embedded |-> 0, failed |-> fired,
              ok |-> process_batch_result(fired)]
        ELSE [c3 |-> t3b, c4 |-> t4b, log |-> log1 \o log2,
              embedded |-> Len(chunks), failed |-> fired,
              ok |-> process_batch_result(fired)]

(***************************************************************************)
(* index_codebase (src/src/commands/index.rs), one run at a time.          *)
(*   run.pc: "idle" -> "walk" -> "stale" -> "done", and "aborted" where a  *)
(*   `?` returns the error of a call.                                      *)
(***************************************************************************)
IdleRun ==
    [pc |-> "idle", update |-> FALSE, workspace |-> "default",
     batch_size |-> 1, existing_files |-> EmptyMap, walker |-> <<>>,
     chunks_buffer |-> <<>>, pending_deletes |-> <<>>, visited_files |-> {},
     stale_files |-> <<>>]

NoHist ==
    [c3_0 |-> <<>>, c4_0 |-> <<>>, walked |-> {}, late |-> FALSE,
     log |-> <<>>, embedded |-> 0, failed |-> FALSE, processed |-> {},
     deleted |-> {}, added |-> {}, uncommitted |-> FALSE]

\* What a flush leaves in the history; `late` says that a C4 add or delete
\* was issued through a handle that had already committed.  `uncommitted`
\* says that the final commit of this or an earlier run failed.
AfterFlush(h, out) ==
    [h EXCEPT !.log = out.log,
              !.embedded = @ + out.embedded,
              !.failed = @ \/ out.failed,
              !.late = @ \/ (out.c4.commits > 0 /\ out.log # <<>>),
              !.deleted = @ \cup UNION {e.files : e \in {x \in Range(out.log) : x.op = "delete"}},
              !.added = @ \cup UNION {e.files : e \in {x \in Range(out.log) : x.op = "add"}}]

\* WalkBuilder::new(index_path).build(): the files that exist, in the
\* order the directories list them.
PresentPaths(tree) == {p \in IdxPaths : tree[p].present}
Walker(tree) ==
    SelectSeq(<<P_n_txt, P_t_x_rs, P_a_rs, P_db_rs>>, LAMBDA p : tree[p].present)

\* Lines 26-123: force, models, Storage::init, BM25Index::new (the writer
\* starts from the committed index), existing_files, the walker.
StartRun ==
    /\ run.pc \in {"idle", "done"}
    /\ runs_left > 0
    /\ \E update \in BOOLEAN, force \in BOOLEAN, workspace \in Workspaces,
          batch_size \in BatchSizes :
         LET t3 == IF force THEN <<>> ELSE c3
             t4 == BM25_new(IF force THEN <<>> ELSE c4.committed)
         IN  /\ c3' = t3
             /\ c4' = t4
             /\ run' = [IdleRun EXCEPT
                          !.pc = "walk", !.update = update,
                          !.workspace = workspace, !.batch_size = batch_size,
                          !.existing_files =
                              IF update THEN Storage_get_indexed_metadata(t3, workspace)
                              ELSE EmptyMap,
                          !.walker = Walker(fs)]
             /\ hist' = [NoHist EXCEPT !.c3_0 = t3, !.c4_0 = t4.committed,
                                       !.walked = PresentPaths(fs),
                                       !.uncommitted = hist.uncommitted]
    /\ runs_left' = runs_left - 1
    /\ UNCHANGED <<fs, nedits, fail_left>>
    /\ UNCHANGED idxOthers

\* Lines 132-157: the entries the loop passes over with `continue` before it
\* reads the mtime: an excluded path, an extension with no grammar, a file
\* over max_file_size_bytes.  Every exclusion of the model ends with "/" and
\* no extension holds one, so path_str.contains(ex) is decided by the stem.
filtered_out(p, file) ==
    \/ \E ex \in exclusions : Contains(p.stem, ex)
    \/ ~get_language(Extension(p))
    \/ FileSize(file) > max_file_size_bytes

\* visited_files.insert(fname_str.clone()) (line 169), made before the
\* update test; and a walk that records nothing.
track_visited_never(visited_files, fname_str) == visited_files
track_visited(visited_files, fname_str) == visited_files \cup {fname_str}

\* One iteration of `for result in walker` (lines 125-204) for the entry p
\* whose file is f, as a function of the run's locals r and the stores.
walk_entry(r, t3, t4, p, f, fl) ==
    LET file == FileOf(f.content)
        fname_str == p
        mtime == f.mtime
        r1 == [r EXCEPT !.visited_files = track_visited(@, fname_str)]
        known == r.update /\ fname_str \in DOMAIN r.existing_files
        unchanged == known /\ r.existing_files[fname_str] = mtime
        r2 == IF known THEN [r1 EXCEPT !.pending_deletes = Append(@, fname_str)]
              ELSE r1
        new_chunks == chunk_file(idx_chunker, fname_str, file, mtime)
        r3 == [r2 EXCEPT !.chunks_buffer = @ \o new_chunks]
        flush == \/ Len(r3.chunks_buffer) >= r.batch_size
                 \/ Len(r3.pending_deletes) >= r.batch_size
        out == process_batch(r3.chunks_buffer, r3.pending_deletes, r.workspace,
                             t3, t4, fl)
        quiet == [c3 |-> t3, c4 |-> t4, log |-> <<>>, embedded |-> 0,
                  failed |-> FALSE, ok |-> TRUE]
    IN  IF filtered_out(p, file)
        THEN [r |-> r, out |-> quiet, flushed |-> FALSE, chunked |-> FALSE]
        ELSE IF unchanged
        THEN [r |-> r1, out |-> quiet, flushed |-> FALSE, chunked |-> FALSE]
        ELSE IF flush
        THEN [r |-> [r3 EXCEPT !.chunks_buffer = <<>>, !.pending_deletes = <<>>],
              out |-> out, flushed |-> TRUE, chunked |-> TRUE]
        ELSE [r |-> r3, out |-> quiet, flushed |-> FALSE, chunked |-> TRUE]

\* A failure is injected only into a call the step really makes.
FailureOk(fl, res) ==
    IF fl = NoFail THEN TRUE ELSE fail_left > 0 /\ res.out.failed

WalkEntry ==
    /\ run.pc = "walk"
    /\ run.walker # <<>>
    /\ \E fl \in FailureChoices :
         LET p == Head(run.walker)
             res == walk_entry([run EXCEPT !.walker = Tail(@)], c3, c4, p, fs[p], fl)
             h1 == IF res.chunked THEN [hist EXCEPT !.processed = @ \cup {p}] ELSE hist
         IN  /\ FailureOk(fl, res)
             /\ run' = IF res.out.ok THEN res.r ELSE [res.r EXCEPT !.pc = "aborted"]
             /\ c3' = res.out.c3
             /\ c4' = res.out.c4
             /\ hist' = IF res.flushed THEN AfterFlush(h1, res.out) ELSE h1
             /\ fail_left' = IF fl = NoFail THEN fail_left ELSE fail_left - 1
    /\ UNCHANGED <<fs, runs_left, nedits>>
    /\ UNCHANGED idxOthers

\* existing_files.keys().filter(..).collect(): the keys in any order.
SeqsOf(S) == {q \in [1..Cardinality(S) -> S] : Range(q) = S}

\* Lines 206-215: the flush after the walk; lines 218-224: the stale list.
FinalFlush ==
    /\ run.pc = "walk"
    /\ run.walker = <<>>
    /\ \E fl \in FailureChoices :
         LET needed == run.chunks_buffer # <<>> \/ run.pending_deletes # <<>>
             out == IF needed
                    THEN process_batch(run.chunks_buffer, run.pending_deletes,
                                       run.workspace, c3, c4, fl)
                    ELSE [c3 |-> c3, c4 |-> c4, log |-> <<>>, embedded |-> 0,
                          failed |-> FALSE, ok |-> TRUE]
         IN  /\ FailureOk(fl, [out |-> out])
             /\ c3' = out.c3
             /\ c4' = out.c4
             /\ hist' = IF needed THEN AfterFlush(hist, out) ELSE hist
             /\ fail_left' = IF fl = NoFail THEN fail_left ELSE fail_left - 1
             /\ \E stale \in SeqsOf(IF run.update
                                     THEN DOMAIN run.existing_files \ run.visited_files
                                     ELSE {}) :
                  run' = [run EXCEPT !.pc = IF out.ok THEN "stale" ELSE "aborted",
                                     !.chunks_buffer = <<>>,
                                     !.pending_deletes = <<>>,
                                     !.stale_files = IF out.ok THEN stale ELSE <<>>]
    /\ UNCHANGED <<fs, runs_left, nedits>>
    /\ UNCHANGED idxOthers

\* (Mutant) a stale-cleanup batch that commits the lexical index after its
\* deletes.
stale_batch_committing(batch, workspace, t3, t4, fl) ==
    [c3 |-> IF fl.del3 THEN t3 ELSE Storage_batch_delete_files(t3, batch, workspace),
     c4 |-> BM25_commit(IF fl.del4 THEN t4
                        ELSE BM25_batch_delete_files(t4, batch, workspace), TRUE),
     log |-> <<LogEntry("delete", "c3", Range(batch)),
               LogEntry("delete", "c4", Range(batch))>>,
     embedded |-> 0,
     failed |-> fl.del3 \/ fl.del4]

\* Lines 230-238: one batch of the stale cleanup.
stale_batch(batch, workspace, t3, t4, fl) ==
    [c3 |-> IF fl.del3 THEN t3 ELSE Storage_batch_delete_files(t3, batch, workspace),
     c4 |-> IF fl.del4 THEN t4 ELSE BM25_batch_delete_files(t4, batch, workspace),
     log |-> <<LogEntry("delete", "c3", Range(batch)),
               LogEntry("delete", "c4", Range(batch))>>,
     embedded |-> 0,
     failed |-> fl.del3 \/ fl.del4]

StaleBatch ==
    /\ run.pc = "stale"
    /\ run.stale_files # <<>>
    /\ \E fl \in {NoFail, [NoFail EXCEPT !.del3 = TRUE], [NoFail EXCEPT !.del4 = TRUE]} :
         LET n == Min(run.batch_size, Len(run.stale_files))
             batch == SubSeq(run.stale_files, 1, n)
             out == stale_batch(batch, run.workspace, c3, c4, fl)
         IN  /\ FailureOk(fl, [out |-> out])
             /\ c3' = out.c3
             /\ c4' = out.c4
             /\ hist' = AfterFlush(hist, out)
             /\ run' = [run EXCEPT !.stale_files = SubSeq(@, n + 1, Len(@))]
             /\ fail_left' = IF fl = NoFail THEN fail_left ELSE fail_left - 1
    /\ UNCHANGED <<fs, runs_left, nedits>>
    /\ UNCHANGED idxOthers

\* Lines 242-255: bm25_index.commit(), logged if it fails; the best-effort
\* filename index; Ok(()).
Commit ==
    /\ run.pc = "stale"
    /\ run.stale_files = <<>>
    /\ \E fails \in BOOLEAN :
         /\ fails => fail_left > 0
         /\ c4' = BM25_commit(c4, ~fails)
         /\ hist' = [hist EXCEPT !.failed = @ \/ fails, !.uncommitted = @ \/ fails]
         /\ fail_left' = IF fails THEN fail_left - 1 ELSE fail_left
    /\ run' = [run EXCEPT !.pc = "done"]
    /\ UNCHANGED <<fs, c3, runs_left, nedits>>
    /\ UNCHANGED idxOthers

(***************************************************************************)
(* The user edits the tree between runs, when the process of the last run  *)
(* has exited.  The indexer reads mtimes in whole seconds (as_secs, line   *)
(* 165): a file rewritten within the second of its last write keeps its    *)
(* mtime, a file written later gets the clock's value.                     *)
(***************************************************************************)
Now == nedits + 2

WriteFile ==
    /\ run.pc \in {"idle", "done"}
    /\ nedits < MaxEdits
    /\ \E p \in EditablePaths, content \in Contents :
         /\ fs[p].present => fs[p].content # content
         /\ \E mtime \in {Now} \cup (IF fs[p].present THEN {fs[p].mtime} ELSE {}) :
              fs' = [fs EXCEPT ![p] = MkFile(mtime, content)]
    /\ run' = IdleRun
    /\ nedits' = nedits + 1
    /\ UNCHANGED <<c3, c4, hist, runs_left, fail_left>>
    /\ UNCHANGED idxOthers

RemoveFile ==
    /\ run.pc \in {"idle", "done"}
    /\ nedits < MaxEdits
    /\ \E p \in EditablePaths :
         /\ fs[p].present
         /\ fs' = [fs EXCEPT ![p] = NoFile]
    /\ run' = IdleRun
    /\ nedits' = nedits + 1
    /\ UNCHANGED <<c3, c4, hist, runs_left, fail_left>>
    /\ UNCHANGED idxOthers

IdxOthersIdle ==
    /\ ck_cfg = idx_chunker /\ ck_in = <<>> /\ ck_out = <<>> /\ ck_pc = "idle"
    /\ srv = <<>> /\ sq = <<>> /\ sres = <<>>
    /\ LaterIdle

\* The tree before the first run, and empty stores.
IdxStart ==
    /\ fs \in {[p \in IdxPaths |->
                  CASE p = P_a_rs   -> MkFile(1, ca)
                    [] p = P_db_rs  -> MkFile(1, "fn")
                    [] p = P_n_txt  -> MkFile(1, "fn")
                    [] p = P_t_x_rs -> MkFile(1, "fn")] : ca \in {"two", "long"}}
    /\ c3 = <<>>
    /\ c4 = BM25_new(<<>>)
    /\ run = IdleRun
    /\ hist = NoHist
    /\ nedits = 0
    /\ IdxOthersIdle

\* Every embedding and store call of the runs succeeds.
IdxInit ==
    /\ IdxStart
    /\ runs_left = MaxRuns
    /\ fail_left = 0

\* Embedding and store calls of the runs may fail.
IdxInitFaults ==
    /\ IdxStart
    /\ runs_left = MaxFaultyRuns
    /\ fail_left = MaxFail

IdxNext ==
    \/ StartRun
    \/ WalkEntry
    \/ FinalFlush
    \/ StaleBatch
    \/ Commit
    \/ WriteFile
    \/ RemoveFile

\* Index runs in which every embedding and store call succeeds.
SpecIndex == IdxInit /\ [][IdxNext]_vars

\* Index runs in which embedding and store calls may fail.
SpecIndexFaults == IdxInitFaults /\ [][IdxNext]_vars

(***************************************************************************)
(* Retrieval.  A text is a sequence of words (one character stands for a   *)
(* word).  The embedding model and the reranker are deterministic          *)
(* functions of the text; the model takes the set of words of a text for   *)
(* its vector and the number of differing words for the distance.         *)
(***************************************************************************)
None    == "None"      \* Option::<String>::None of a workspace
NoneStr == <<>>        \* Option::None of an ext or dir argument

\* str.replace("\\", "/") on a string
NormSlashes(str) == [i \in 1..Len(str) |-> IF str[i] = "\\" THEN "/" ELSE str[i]]

\* Embedder::embed
embed(text) == Range(text)
Distance(u, v) == Cardinality((u \ v) \cup (v \ u))

\* Embedder::rerank: the cross-encoder's score of a text for the query.
rerank_score(query, text) == Cardinality(embed(query) \cap embed(text))

\* items ordered by ascending key; items with equal keys keep their order.
SortByKey(items, keys) ==
    LET n == Len(items)
        pos(i) == 1 + Cardinality({j \in 1..n :
                         keys[j] < keys[i] \/ (keys[j] = keys[i] /\ j < i)})
    IN  [r \in 1..n |-> items[CHOOSE i \in 1..n : pos(i) = r]]

Take(seq, n) == SubSeq(seq, 1, Min(n, Len(seq)))

\* ext_val.strip_prefix('.'): an extension argument is <<"rs">> or <<".", "rs">>.
clean_ext(ext_val) == IF Head(ext_val) = "." THEN Tail(ext_val) ELSE ext_val

\* A file name as the string the stores keep: the stem, a dot and the
\* extension (one symbol of the model).
FileStr(f) == f.stem \o <<".", f.ext>>

\* str.ends_with(suffix)
EndsWith(str, suffix) ==
    Len(suffix) <= Len(str) /\ SubSeq(str, Len(str) - Len(suffix) + 1, Len(str)) = suffix

\* SQL `str LIKE pattern`: "%" matches any run of characters, "_" any one
\* character, every other character itself.
RECURSIVE Like(_, _)
Like(str, pattern) ==
    IF pattern = <<>> THEN str = <<>>
    ELSE IF Head(pattern) = "%"
    THEN Like(str, Tail(pattern)) \/ (str # <<>> /\ Like(Tail(str), pattern))
    ELSE /\ str # <<>>
         /\ Head(pattern) \in {"_", Head(str)}
         /\ Like(Tail(str), Tail(pattern))

\* "filename LIKE '%.<ext>'" AND "filename LIKE '%<dir>%'" as built by
\* semantic_search from the caller's ext and dir.
SqlFilter(ext, dir, r) ==
    /\ ext # NoneStr => Like(FileStr(r.filename), <<"%", ".">> \o clean_ext(ext))
    /\ dir # NoneStr => Like(FileStr(r.filename), <<"%">> \o NormSlashes(dir) \o <<"%">>)

\* Storage::search: nearest_to(query_vector), only_if(filter), limit.  The
\* method of storage.rs has no workspace predicate; the workspace the
\* caller hands over is not read.
Storage_search(table, query_vector, limit, ext, dir, workspace) ==
    LET hits == SelectSeq(table, LAMBDA r : SqlFilter(ext, dir, r))
        keys == [i \in 1..Len(hits) |-> Distance(query_vector, embed(hits[i].code))]
    IN  Take(SortByKey(hits, keys), limit)

\* The words the default tokenizer indexes for a document: those of the
\* code and those of the file name.
DocTerms(d) ==
    Range(d.code) \cup (Range(d.filename.stem) \ {"/", "\\"}) \cup {d.filename.ext}

\* BM25Index::search on the documents the reader sees: the query parsed
\* over (code, filename), AND the workspace term when one is given;
\* TopDocs::with_limit(limit).  The score of the model is the number of
\* query words the document holds; equal scores keep the index order.
BM25_search(docs, query_str, limit, workspace) ==
    LET hits == SelectSeq(docs, LAMBDA d :
                    /\ Range(query_str) \cap DocTerms(d) # {}
                    /\ workspace # None => d.workspace = workspace)
        keys == [i \in 1..Len(hits) |->
                    0 - Cardinality(Range(query_str) \cap DocTerms(hits[i]))]
    IN  Take(SortByKey(hits, keys), limit)

(***************************************************************************)
(* CodeSearcher::semantic_search (src/src/search.rs).                      *)
(***************************************************************************)
vector_weight == 1
bm25_weight   == 1
rrf_k         == 60

\* compute_rrf_component(rank, k) = 1.0 / (k + rank), in units of
\* 1/RrfScale; RrfScale is a multiple of 61, 62, 63 and 64.
RrfScale == 61 * 31 * 63 * 64
compute_rrf_component(rank, k) == RrfScale \div (k + rank)

MkResult(r) ==
    [rank |-> 0, score |-> 0, filename |-> r.filename, code |-> r.code,
     line_start |-> r.line_start, line_end |-> r.line_end]

\* format!("{}-{}-{}", c.filename, c.line_start, c.line_end)
ResultId(c) == <<c.filename, c.line_start, c.line_end>>

fetch_limit(limit, no_rerank) == IF no_rerank THEN limit ELSE Max(50, limit * 5)

\* Lines 100-218: one vector search per query; every row met is a hit
\* [id, rank, row] with rank = i + 1, i the row's index in its record batch.
RECURSIVE vector_hits(_, _, _, _)
vector_hits(table, search_queries, rq, rows_per_batch) ==
    IF search_queries = <<>> THEN <<>>
    ELSE LET results == Storage_search(table, embed(Head(search_queries)),
                            fetch_limit(rq.limit, rq.no_rerank), rq.ext, rq.dir,
                            rq.workspace)
         IN  [j \in 1..Len(results) |->
                 [id |-> results[j].id, rank |-> ((j - 1) % rows_per_batch) + 1,
                  row |-> results[j]]]
             \o vector_hits(table, Tail(search_queries), rq, rows_per_batch)

\* vector_rrf_scores[id]
RECURSIVE vector_rrf_score(_, _)
vector_rrf_score(hits, id) ==
    IF hits = <<>> THEN 0
    ELSE (IF Head(hits).id = id
          THEN compute_rrf_component(Head(hits).rank, rrf_k) ELSE 0)
         + vector_rrf_score(Tail(hits), id)

\* all_vector_results[id]: entry(id).or_insert_with keeps the first row met.
first_row(hits, id) ==
    hits[CHOOSE i \in 1..Len(hits) :
            hits[i].id = id /\ \A j \in 1..(i - 1) : hits[j].id # id].row

\* Lines 250-270: the manual ext and dir filter of a BM25 hit.
manual_filter(ext, dir, d) ==
    /\ ext # NoneStr => EndsWith(FileStr(d.filename), <<".">> \o clean_ext(ext))
    /\ dir # NoneStr => Contains(NormSlashes(FileStr(d.filename)), NormSlashes(dir))

\* Lines 220-226: the candidates taken from all_vector_results in the order
\* the HashMap yields them, score 0.0.
vector_candidates(hits, order) ==
    [i \in 1..Len(order) |-> MkResult(first_row(hits, order[i]))]

\* bm25_map[id] = rank: the 1-based place of the id in the BM25 results,
\* the last one when the id comes twice; 0 when it is not there.
bm25_rank(bm25_results, id) ==
    LET at == {i \in 1..Len(bm25_results) : bm25_results[i].id = id}
    IN  IF at = {} THEN 0 ELSE CHOOSE i \in at : \A j \in at : j <= i

\* Lines 244-275: every BM25 result whose id is not among the candidates
\* yet and which passes the manual filter is pushed as a candidate.
push_bm25_only(vector_cands, bm25_results, ext, dir) ==
    LET existing_ids == {ResultId(vector_cands[i]) : i \in 1..Len(vector_cands)}
        numbered == [i \in 1..Len(bm25_results) |-> [i |-> i, d |-> bm25_results[i]]]
        pushed == SelectSeq(numbered, LAMBDA x :
                      /\ x.d.id \notin existing_ids
                      /\ \A j \in 1..(x.i - 1) : bm25_results[j].id # x.d.id
                      /\ manual_filter(ext, dir, x.d))
    IN  vector_cands \o [i \in 1..Len(pushed) |-> MkResult(pushed[i].d)]

\* Lines 277-292: the hybrid RRF score of every candidate.
hybrid_scores(merged, hits, bm25_results) ==
    [i \in 1..Len(merged) |->
        LET r == bm25_rank(bm25_results, ResultId(merged[i]))
        IN  [merged[i] EXCEPT !.score =
                vector_rrf_score(hits, ResultId(merged[i])) * vector_weight
                + (IF r = 0 THEN 0 ELSE compute_rrf_component(r, rrf_k))
                  * bm25_weight]]

\* Lines 293-306: vector-only scores when the searcher has no BM25 index.
vector_only_scores(vector_cands, hits) ==
    [i \in 1..Len(vector_cands) |->
        [vector_cands[i] EXCEPT
            !.score = vector_rrf_score(hits, ResultId(vector_cands[i])) * vector_weight]]

\* Lines 228-306: the scored candidates.  When bm25.search returns Err the
\* candidates are the vector candidates as they are.
scored_candidates(has_bm25, bm25_ok, vector_cands, hits, bm25_results, ext, dir) ==
    IF has_bm25
    THEN IF bm25_ok
         THEN hybrid_scores(push_bm25_only(vector_cands, bm25_results, ext, dir),
                            hits, bm25_results)
         ELSE vector_cands
    ELSE vector_only_scores(vector_cands, hits)

\* Lines 311-340: unless no_rerank, the candidates get the reranker's score
\* and are sorted by it, descending; they stay as they are when rerank
\* returns Err or there is no candidate.
reranked(candidates, query, no_rerank, rerank_ok) ==
    IF ~no_rerank /\ candidates # <<>> /\ rerank_ok
    THEN SortByKey([i \in 1..Len(candidates) |->
                       [candidates[i] EXCEPT
                           !.score = rerank_score(query, candidates[i].code)]],
                   [i \in 1..Len(candidates) |->
                       0 - rerank_score(query, candidates[i].code)])
    ELSE candidates

\* (Mutant) ranks assigned without the truncation to `limit`.
take_and_rank_untruncated(candidates, limit) ==
    [i \in 1..Len(candidates) |-> [candidates[i] EXCEPT !.rank = i]]

\* Lines 348-352: take(limit), rank = i + 1.
take_and_rank(candidates, limit) ==
    [i \in 1..Min(limit, Len(candidates)) |-> [candidates[i] EXCEPT !.rank = i]]

(***************************************************************************)
(* ContextOptimizer (src/src/context.rs).  A text of the model has one     *)
(* token per symbol; the newline and the gap marker that a merge puts      *)
(* between two snippets are one symbol each.                               *)
(***************************************************************************)
\* bpe.encode_with_special_tokens(&chunk.code).len()
Tokens(code) == Len(code)

from_single(res) ==
    [filename |-> res.filename, start_line |-> res.line_start,
     end_line |-> res.line_end, code |-> res.code, max_score |-> res.score]

\* A loop that merges only results that touch or overlap the current chunk.
RECURSIVE coalesce_touching(_, _, _)
coalesce_touching(file_results, curr, done) ==
    IF file_results = <<>> THEN Append(done, curr)
    ELSE LET res == Head(file_results)
         IN  IF res.line_start <= curr.end_line + 1
             THEN coalesce_touching(Tail(file_results),
                      [curr EXCEPT
                          !.end_line = Max(@, res.line_end),
                          !.code = @ \o <<"\n">> \o res.code,
                          !.max_score = Max(@, res.score)],
                      done)
             ELSE coalesce_touching(Tail(file_results), from_single(res), Append(done, curr))

\* The loop over one file's results in line order: a result that starts
\* within 5 lines of the current chunk's end is merged into it, any other
\* closes it and starts the next.
RECURSIVE coalesce(_, _, _)
coalesce(file_results, curr, done) ==
    IF file_results = <<>> THEN Append(done, curr)
    ELSE LET res == Head(file_results)
         IN  IF res.line_start <= curr.end_line + 5
             THEN coalesce(Tail(file_results),
                      [curr EXCEPT
                          !.end_line = Max(@, res.line_end),
                          !.code = @ \o <<"\n">>
                                     \o (IF res.line_start > curr.end_line + 1
                                         THEN <<"... (gap) ...\n">> ELSE <<>>)
                                     \o res.code,
                          !.max_score = Max(@, res.score)],
                      done)
             ELSE coalesce(Tail(file_results), from_single(res), Append(done, curr))

\* `for (_filename, mut file_results) in by_file`: the files in the order
\* the HashMap yields them, each file's results sorted by start line.
RECURSIVE coalesce_files(_, _)
coalesce_files(results, file_order) ==
    IF file_order = <<>> THEN <<>>
    ELSE LET of_file == SelectSeq(results, LAMBDA r : r.filename = Head(file_order))
             sorted == SortByKey(of_file, [i \in 1..Len(of_file) |-> of_file[i].line_start])
         IN  (IF of_file = <<>> THEN <<>>
              ELSE coalesce(Tail(sorted), from_single(Head(sorted)), <<>>))
             \o coalesce_files(results, Tail(file_order))

\* A budget loop that keeps every chunk.
select_unbounded(all_merged, token_limit, current_tokens) == all_merged

\* The budget loop: a chunk is kept when it still fits, passed over when
\* it does not.
RECURSIVE select_within_budget(_, _, _)
select_within_budget(all_merged, token_limit, current_tokens) ==
    IF all_merged = <<>> THEN <<>>
    ELSE LET tokens == Tokens(Head(all_merged).code)
         IN  IF current_tokens + tokens <= token_limit
             THEN <<Head(all_merged)>>
                  \o select_within_budget(Tail(all_merged), token_limit, current_tokens + tokens)
             ELSE select_within_budget(Tail(all_merged), token_limit, current_tokens)

\* all_merged.sort_by(|a, b| b.max_score.total_cmp(&a.max_score))
by_max_score(all_merged) ==
    SortByKey(all_merged, [i \in 1..Len(all_merged) |-> 0 - all_merged[i].max_score])

\* final_selection.sort_by(file name, then start line); a name's key is
\* its place among the stored names of the model in string order.
by_file_and_line(selection) ==
    LET names == <<MkPath(<<"a">>, "rs"), MkPath(<<"d", "/", "b">>, "rs")>>
        place(f) == CHOOSE i \in 1..Len(names) : names[i] = f
    IN  SortByKey(selection, [i \in 1..Len(selection) |->
            place(selection[i].filename) * 1000 + selection[i].start_line])

\* ContextOptimizer::new(token_limit).optimize(results)
optimize(results, token_limit, file_order) ==
    IF results = <<>> THEN <<>>
    ELSE by_file_and_line(select_within_budget(by_max_score(coalesce_files(results, file_order)), token_limit, 0))

\* Lines 354-375: with max_tokens (<<n>> for Some(n), <<>> for None) the
\* results are the optimizer's merged chunks, rank = i + 1 and score =
\* max_score; without, the results as they are.
with_max_tokens(final_results, max_tokens, file_order) ==
    IF max_tokens = <<>> THEN final_results
    ELSE LET merged_chunks == optimize(final_results, max_tokens[1], file_order)
         IN  [i \in 1..Len(merged_chunks) |->
                 [rank |-> i, score |-> merged_chunks[i].max_score,
                  filename |-> merged_chunks[i].filename,
                  code |-> merged_chunks[i].code,
                  line_start |-> merged_chunks[i].start_line,
                  line_end |-> merged_chunks[i].end_line]]

\* semantic_search over the table and, when has_bm25, the documents the
\* BM25 reader sees.  rq = [query, limit, ext, dir, no_rerank, workspace];
\* search_queries is the query or its expansion; order is the order in which
\* the HashMap all_vector_results yields its values and file_order the
\* order in which the optimizer's by_file yields its files; bm25_ok and rerank_ok
\* say whether bm25.search and embedder.rerank return Ok.  The workspace
\* goes to storage.search; bm25.search gets the query and the limit
\* (line 237).  The result carries, beside the results, the rows and
\* documents the two retrieval paths returned.
semantic_search(table, has_bm25, docs, rq, search_queries, rows_per_batch, order, file_order, bm25_ok, rerank_ok) ==
    LET hits == vector_hits(table, search_queries, rq, rows_per_batch)
        bm25_results == BM25_search(docs, rq.query,
                                    fetch_limit(rq.limit, rq.no_rerank), None)
    IN  [results |->
            with_max_tokens(
                take_and_rank(
                    reranked(scored_candidates(has_bm25, bm25_ok,
                                               vector_candidates(hits, order),
                                               hits, bm25_results, rq.ext, rq.dir),
                             rq.query, rq.no_rerank, rerank_ok),
                    rq.limit),
                rq.max_tokens, file_order),
         vector_rows |-> Range([i \in 1..Len(hits) |-> hits[i].row]),
         bm25_docs |-> IF has_bm25 /\ bm25_ok THEN Range(bm25_results) ELSE {}]

(***************************************************************************)
(* The HTTP server (src/src/server.rs, src/src/server/workspace_manager.rs) *)
(* The server is [db_exists, cache]: whether the database root exists and  *)
(* the WorkspaceManager's map from workspace id to its search context.  A  *)
(* context holds a read-only BM25 handle, whose reader sees what was       *)
(* committed when the handle was opened.                                   *)
(***************************************************************************)
NotLoaded == [loaded |-> FALSE, bm25 |-> <<>>]

\* get_search_context: the cached context, or load_search_context (an error
\* when the database root does not exist) and the insertion into the cache.
get_search_context(server, committed, workspace_id) ==
    IF server.cache[workspace_id].loaded
    THEN [ok |-> TRUE, server |-> server, context |-> server.cache[workspace_id]]
    ELSE IF ~server.db_exists
    THEN [ok |-> FALSE, server |-> server, context |-> NotLoaded]
    ELSE LET context == [loaded |-> TRUE, bm25 |-> committed]
         IN  [ok |-> TRUE,
              server |-> [server EXCEPT !.cache[workspace_id] = context],
              context |-> context]

\* process_search: the searcher of the workspace (404 when it cannot be
\* had), semantic_search with the payload's fields and None where the
\* workspace goes, 200 with the results.
process_search(server, table, committed, workspace, payload, search_queries, rows_per_batch, order, file_order, bm25_ok, rerank_ok) ==
    LET got == get_search_context(server, committed, workspace)
        rq == [query |-> payload.query, limit |-> payload.limit,
               ext |-> payload.ext, dir |-> payload.dir,
               no_rerank |-> payload.no_rerank, workspace |-> None,
               max_tokens |-> payload.max_tokens]
        out == semantic_search(table, TRUE, got.context.bm25, rq, search_queries,
                               rows_per_batch, order, file_order, bm25_ok, rerank_ok)
    IN  IF ~got.ok
        THEN [server |-> got.server, status |-> 404, results |-> <<>>,
              vector_rows |-> {}, bm25_docs |-> {}]
        ELSE [server |-> got.server, status |-> 200, results |-> out.results,
              vector_rows |-> out.vector_rows, bm25_docs |-> out.bm25_docs]

(***************************************************************************)
(* QueryExpander (src/src/llm/expander.rs).  A string is a sequence of     *)
(* one-character strings.                                                  *)
(***************************************************************************)
\* String's Ord: byte-wise lexicographic, a proper prefix first; `bytes`
\* lists the characters of the model in byte order.
RECURSIVE StrLess(_, _)
StrLess(a, b) ==
    LET bytes == <<" ", ",", "a", "f", "g", "n">>
        code(c) == CHOOSE i \in 1..Len(bytes) : bytes[i] = c
    IN  IF b = <<>> THEN FALSE
        ELSE IF a = <<>> THEN TRUE
        ELSE IF Head(a) = Head(b) THEN StrLess(Tail(a), Tail(b))
        ELSE code(Head(a)) < code(Head(b))

\* response.split(','): the pieces between the commas, empty ones kept.
RECURSIVE split_commas(_, _)
split_commas(str, piece) ==
    IF str = <<>> THEN <<piece>>
    ELSE IF Head(str) = "," THEN <<piece>> \o split_commas(Tail(str), <<>>)
    ELSE split_commas(Tail(str), Append(piece, Head(str)))

\* s.trim(): leading and trailing white space removed.
RECURSIVE trim(_)
trim(str) ==
    IF str = <<>> THEN <<>>
    ELSE IF Head(str) = " " THEN trim(Tail(str))
    ELSE IF str[Len(str)] = " " THEN trim(SubSeq(str, 1, Len(str) - 1))
    ELSE str

\* split(',').map(trim).filter(non-empty).collect()
reply_terms(response) ==
    LET pieces == split_commas(response, <<>>)
    IN  SelectSeq([i \in 1..Len(pieces) |-> trim(pieces[i])], LAMBDA t : t # <<>>)

\* terms.sort()
sort_terms(terms) ==
    LET n == Len(terms)
        pos(i) == 1 + Cardinality({j \in 1..n :
                         StrLess(terms[j], terms[i]) \/ (terms[j] = terms[i] /\ j < i)})
    IN  [r \in 1..n |-> terms[CHOOSE i \in 1..n : pos(i) = r]]

\* terms.dedup(): consecutive equal elements reduced to the first.
dedup(terms) ==
    LET kept == SelectSeq([i \in 1..Len(terms) |-> i],
                          LAMBDA i : i = 1 \/ terms[i] # terms[i - 1])
    IN  [k \in 1..Len(kept) |-> terms[kept[k]]]

\* QueryExpander::expand for the reply `response` of the language model:
\* the terms of the reply, the query inserted at index 0, sort, dedup.
expand(query, response) == dedup(sort_terms(<<query>> \o reply_terms(response)))

(***************************************************************************)
(* SpecSearch: chunks are added to the two stores under a workspace, and   *)
(* searches are made through a CodeSearcher and through the HTTP server.   *)
(***************************************************************************)
MaxRows  == 2      \* rows the table holds at most
MaxLimit == 2      \* the larger of the two limits tried
MinTokens == 2     \* the token budgets tried
MaxTokens == 6

AddFiles == {[path |-> P_a_rs, content |-> "two"],
             [path |-> P_db_rs, content |-> "fn"]}

Queries == {<<"f">>, <<"g", "a">>}
\* The search arguments tried: for every query, the plain search for
\* MaxLimit results and the searches that differ from it in one argument.
Payloads ==
    UNION {LET plain == [query |-> q, limit |-> MaxLimit, ext |-> NoneStr,
                         dir |-> NoneStr, no_rerank |-> FALSE,
                         max_tokens |-> <<>>]
           IN  {plain,
                [plain EXCEPT !.limit = 1],
                [plain EXCEPT !.ext = <<".", "rs">>],
                [plain EXCEPT !.dir = <<"d", "\\">>],
                [plain EXCEPT !.dir = <<"d", "_">>],
                [plain EXCEPT !.no_rerank = TRUE],
                [plain EXCEPT !.max_tokens = <<MinTokens>>],
                [plain EXCEPT !.max_tokens = <<MaxTokens>>]} : q \in Queries}
Requests ==
    {[query |-> p.query, limit |-> p.limit, ext |-> p.ext, dir |-> p.dir,
      no_rerank |-> p.no_rerank, workspace |-> w, max_tokens |-> p.max_tokens] :
        p \in Payloads, w \in Workspaces \cup {None}}

\* The replies of the language model tried.
Replies == {<<"n">>, <<"a", ",", " ", "f", ",">>}

\* What the environment of a search decides: whether the query is expanded
\* and the model's reply (search_queries is the query alone when expansion
\* is off or fails, lines 80-98), the number of rows LanceDB puts in a
\* record batch, and whether bm25.search and embedder.rerank return Ok.
\* The usual case and the cases that differ from it in one respect.
Environments(query) ==
    LET usual == [expanded |-> FALSE, reply |-> <<>>,
                  search_queries |-> <<query>>, rows_per_batch |-> MaxRows,
                  bm25_ok |-> TRUE, rerank_ok |-> TRUE]
    IN  {usual,
         [usual EXCEPT !.rows_per_batch = 1],
         [usual EXCEPT !.bm25_ok = FALSE],
         [usual EXCEPT !.rerank_ok = FALSE]}
        \cup {[usual EXCEPT !.expanded = TRUE, !.reply = r,
                            !.search_queries = expand(query, r)] : r \in Replies}

NoRequest ==
    [via |-> "none", workspace |-> None, stored |-> {}, vector_rows |-> {},
     bm25_docs |-> {}]
NoResponse == [status |-> 0, results |-> <<>>]

\* The file names the stores hold.
StoredFiles ==
    {c3[i].filename : i \in 1..Len(c3)}
        \cup {c4.committed[i].filename : i \in 1..Len(c4.committed)}

StoredWorkspaces ==
    {c3[i].workspace : i \in 1..Len(c3)}
        \cup {c4.committed[i].workspace : i \in 1..Len(c4.committed)}

SrchOthersIdle ==
    /\ ck_cfg = idx_chunker /\ ck_in = <<>> /\ ck_out = <<>> /\ ck_pc = "idle"
    /\ fs = <<>> /\ run = <<>> /\ hist = <<>>
    /\ runs_left = 0 /\ nedits = 0 /\ fail_left = 0
    /\ LaterIdle

SrchInit ==
    /\ c3 = <<>>
    /\ c4 = BM25_new(<<>>)
    /\ srv = [db_exists |-> FALSE, cache |-> [w \in Workspaces |-> NotLoaded]]
    /\ sq = NoRequest
    /\ sres = NoResponse
    /\ SrchOthersIdle

\* The chunks of one file are embedded and added to both stores under a
\* workspace, and the lexical index is committed.
AddChunks ==
    /\ sq.via = "none"
    /\ \E w \in Workspaces, f \in AddFiles :
         LET chunks == chunk_file(idx_chunker, f.path, FileOf(f.content), 1)
             ids == [i \in 1..Len(chunks) |-> ChunkId(chunks[i])]
         IN  /\ Len(c3) + Len(chunks) <= MaxRows
             /\ c3' = Storage_add_chunks(c3, w, ids, chunks)
             /\ c4' = BM25_commit(BM25_add_chunks(c4, chunks, w), TRUE)
    /\ srv' = [srv EXCEPT !.db_exists = TRUE]
    /\ UNCHANGED <<sq, sres>>
    /\ UNCHANGED srchOthers

\* A search through a CodeSearcher opened on the stores.
Search ==
    /\ sq.via = "none"
    /\ srv.db_exists
    /\ \E rq \in Requests :
         \E env \in Environments(rq.query) :
           LET hits == vector_hits(c3, env.search_queries, rq, env.rows_per_batch)
           IN  \E order \in SeqsOf({hits[i].id : i \in 1..Len(hits)}), file_order \in SeqsOf(StoredFiles) :
                 LET out == semantic_search(c3, TRUE, c4.committed, rq,
                                env.search_queries, env.rows_per_batch, order,
                                file_order, env.bm25_ok, env.rerank_ok)
                 IN  /\ sq' = [via |-> "searcher", workspace |-> rq.workspace,
                               rq |-> rq, env |-> env, order |-> order,
                               stored |-> StoredWorkspaces,
                               vector_rows |-> out.vector_rows,
                               bm25_docs |-> out.bm25_docs]
                     /\ sres' = [status |-> 200, results |-> out.results]
    /\ UNCHANGED <<c3, c4, srv>>
    /\ UNCHANGED srchOthers

\* POST /v1/{workspace}/search, and POST /search with workspace "default".
HttpSearch ==
    /\ sq.via = "none"
    /\ \E workspace \in Workspaces, payload \in Payloads :
         \E env \in Environments(payload.query) :
           LET rq == [query |-> payload.query, limit |-> payload.limit,
                      ext |-> payload.ext, dir |-> payload.dir,
                      no_rerank |-> payload.no_rerank, workspace |-> None,
                      max_tokens |-> payload.max_tokens]
               hits == vector_hits(c3, env.search_queries, rq, env.rows_per_batch)
           IN  \E order \in SeqsOf({hits[i].id : i \in 1..Len(hits)}), file_order \in SeqsOf(StoredFiles) :
                 LET res == process_search(srv, c3, c4.committed, workspace,
                                payload, env.search_queries, env.rows_per_batch,
                                order, file_order, env.bm25_ok, env.rerank_ok)
                 IN  /\ srv' = res.server
                     /\ sq' = [via |-> "http", workspace |-> workspace,
                               rq |-> rq, env |-> env, order |-> order,
                               stored |-> StoredWorkspaces,
                               vector_rows |-> res.vector_rows,
                               bm25_docs |-> res.bm25_docs]
                     /\ sres' = [status |-> res.status, results |-> res.results]
    /\ UNCHANGED <<c3, c4>>
    /\ UNCHANGED srchOthers

\* The caller takes the response of the search; the next call can be made.
TakeResults ==
    /\ sq.via # "none"
    /\ sq' = NoRequest
    /\ sres' = NoResponse
    /\ UNCHANGED <<c3, c4, srv>>
    /\ UNCHANGED srchOthers

SrchNext ==
    \/ AddChunks
    \/ Search
    \/ HttpSearch
    \/ TakeResults

SpecSearch == SrchInit /\ [][SrchNext]_vars

(***************************************************************************)
(* What the claims about index runs speak of.                              *)
(***************************************************************************)
\* The filename a file's chunks are stored under.
StoredName(p) == ReplaceBackslash(p)

\* The chunks of the current content of the file at p.
CurrentChunks(p) ==
    chunk_file(idx_chunker, p, FileOf(fs[p].content), fs[p].mtime)

\* The (id, code) pairs of a sequence of chunks, of the rows of a table and
\* of the documents of an index view, for one workspace and one filename.
ChunkKeys(chunks) == {<<ChunkId(chunks[i]), chunks[i].code>> : i \in 1..Len(chunks)}
RowsOf(table, w) == {r \in Range(table) : r.workspace = w}
RowKeys(table, w, f) == {<<r.id, r.code>> : r \in {x \in RowsOf(table, w) : x.filename = f}}
DocsOf(docs, w) == {d \in Range(docs) : d.workspace = w}
DocKeys(docs, w, f) == {<<d.id, d.code>> : d \in {x \in DocsOf(docs, w) : x.filename = f}}

\* The number of rows a table holds for one workspace and one filename.
RowCount(table, w, f) ==
    Cardinality({i \in 1..Len(table) : table[i].workspace = w /\ table[i].filename = f})

\* A file with a recognised extension, a size within the limit and a
\* non-empty chunk set.
Eligible(p) ==
    /\ fs[p].present
    /\ Extension(p) \in LanguageExts
    /\ FileSize(FileOf(fs[p].content)) <= max_file_size_bytes
    /\ CurrentChunks(p) # <<>>

\* An eligible file that no configured exclusion matches.
Indexable(p) ==
    /\ Eligible(p)
    /\ ~\E ex \in exclusions : Contains(p.stem, ex)

\* get_indexed_metadata maps the file at p to its current mtime.
Listed(p) ==
    LET md == Storage_get_indexed_metadata(c3, run.workspace)
    IN  StoredName(p) \in DOMAIN md /\ md[StoredName(p)] = fs[p].mtime

\* The run has returned Ok(()) and none of its calls failed.
RunSucceeded == run.pc = "done" /\ ~hist.failed

CkNextStep ==
    \/ CkChunkFile
    \/ CkAgain

SpecChunk == CkInit /\ [][CkNextStep]_vars

(***************************************************************************)
(* Claims about the chunker.                                               *)
(***************************************************************************)
\* C5: no two chunks that one chunk_file call emits for a file share the
\* chunk id "{filename}-{line_start}-{line_end}", the sub-chunks of a split
\* oversize node and nodes lying on the same lines included.
C5_ChunkIdsUnique ==
    ck_pc = "done" =>
        \A i, j \in 1..Len(ck_out) :
            i # j => ChunkId(ck_out[i]) # ChunkId(ck_out[j])

(***************************************************************************)
(* Claims about index runs.                                                *)
(***************************************************************************)
\* C3: after a successful run, for every walked file within the size limit
\* whose chunker output is non-empty, the chunks stored for the file in C3
\* and committed in C4 for the run's workspace are the chunks of its
\* current content and no others: the stored ids are the current ids and
\* every stored chunk carries the code (and in C3 the mtime) of a current
\* chunk with that id.
C3_WalkedFilesCurrent ==
    RunSucceeded =>
        \A p \in hist.walked :
            Indexable(p) =>
                LET cur  == ChunkKeys(CurrentChunks(p))
                    rows == {r \in RowsOf(c3, run.workspace) : r.filename = StoredName(p)}
                    docs == DocKeys(c4.committed, run.workspace, StoredName(p))
                IN  /\ {k[1] : k \in cur} = {r.id : r \in rows}
                    /\ \A r \in rows : <<r.id, r.code>> \in cur
                                        /\ r.last_modified = fs[p].mtime
                    /\ {k[1] : k \in cur} = {k[1] : k \in docs}
                    /\ docs \subseteq cur

\* C4: after a run in which no embedding or store call failed, the (chunk
\* id, code) pairs persisted in C3 for the workspace are the pairs of the
\* documents committed in C4 for that workspace.
C4_StoresInLockStep ==
    RunSucceeded =>
        {<<r.id, r.code>> : r \in RowsOf(c3, run.workspace)}
            = {<<d.id, d.code>> : d \in DocsOf(c4.committed, run.workspace)}

DeleteAddPairs ==
    {pr \in (1..Len(hist.log)) \X (1..Len(hist.log)) :
        /\ hist.log[pr[1]].op = "delete"
        /\ hist.log[pr[2]].op = "add"
        /\ \E f \in hist.log[pr[1]].files : StoredName(f) \in hist.log[pr[2]].files}

\* C7: in every flush the deletes are issued to C3 and C4 before the adds,
\* so that, when no call of the run failed, the new chunks of a file deleted
\* and added in one flush are in both stores after it; and no file waits in
\* pending_deletes while chunks of it have already been added by an earlier
\* flush of the run.
C7_DeletesBeforeAdds ==
    run.pc # "idle" =>
        /\ \A i, j \in 1..Len(hist.log) :
              hist.log[i].op = "delete" /\ hist.log[j].op = "add" => i < j
        /\ \A pr \in DeleteAddPairs :
              \A f \in hist.log[pr[1]].files :
                  (~hist.failed /\ StoredName(f) \in hist.log[pr[2]].files) =>
                      /\ RowKeys(c3, run.workspace, StoredName(f)) # {}
                      /\ DocKeys(c4.writer, run.workspace, StoredName(f)) # {}
        /\ \A f \in Range(run.pending_deletes) : StoredName(f) \notin hist.added

\* A flush has deleted a changed file's old chunks and added its new ones.
C7_Witness ==
    run.pc # "idle" /\ DeleteAddPairs # {}

\* The walked files whose stored last_modified in the workspace, at the
\* start of the run, is the mtime on disk.
Unchanged(p) ==
    LET rows0 == {r \in RowsOf(hist.c3_0, run.workspace) : r.filename = StoredName(p)}
    IN  /\ p \in hist.walked
        /\ rows0 # {}
        /\ \A r \in rows0 : r.last_modified = fs[p].mtime

\* The tree is as the workspace's last index left it: every stored row of
\* the workspace belongs to an unchanged walked file, and every walked file
\* that can be indexed is unchanged.
Untouched ==
    /\ \A r \in RowsOf(hist.c3_0, run.workspace) :
          \E p \in hist.walked : Unchanged(p) /\ r.filename = StoredName(p)
    /\ \A p \in hist.walked : Indexable(p) => Unchanged(p)

\* C8: an update run neither chunks nor deletes nor adds a walked file
\* whose stored last_modified equals its mtime, and an update run over an
\* untouched tree embeds nothing and leaves both stores as they were.
C8_UnchangedFilesSkipped ==
    run.pc = "done" /\ run.update =>
        /\ \A p \in hist.walked :
              Unchanged(p) =>
                  /\ p \notin hist.processed
                  /\ {p, StoredName(p)} \cap (hist.deleted \cup hist.added) = {}
        /\ Untouched =>
              /\ hist.embedded = 0
              /\ c3 = hist.c3_0
              /\ c4.committed = hist.c4_0

\* C9: after a successful update run, a file that had chunks in the
\* workspace before the run and was not met by the walk has no row left in
\* C3 and no document in C4 for the workspace, and get_indexed_metadata
\* does not list it.
C9_StaleFilesRemoved ==
    RunSucceeded /\ run.update =>
        \A f \in {r.filename : r \in RowsOf(hist.c3_0, run.workspace)} :
            f \notin hist.walked \cup {StoredName(p) : p \in hist.walked} =>
                /\ RowKeys(c3, run.workspace, f) = {}
                /\ DocKeys(c4.committed, run.workspace, f) = {}
                /\ f \notin DOMAIN Storage_get_indexed_metadata(c3, run.workspace)

\* C10: after index(update=false) has completed, get_indexed_metadata maps
\* a file of the tree to its current mtime iff the file has a recognised
\* extension, a size within the limit and a non-empty chunk set.  Stated for
\* the runs in which no embedding or store call failed and for the files no
\* configured exclusion matches, where these three conditions are all that
\* decides whether the walk indexes the file.
C10_MetadataIffEligible ==
    RunSucceeded /\ ~run.update =>
        \A p \in IdxPaths :
            (fs[p].present /\ ~\E ex \in exclusions : Contains(p.stem, ex))
                => (Listed(p) <=> Eligible(p))

(***************************************************************************)
(* Claims about search.                                                    *)
(***************************************************************************)
\* C1: when every chunk in the stores was added under a workspace other
\* than the one a hybrid search is issued with, neither the vector path nor
\* the BM25 path retrieves a chunk and the search returns no result.
C1_SearchIsolated ==
    (/\ sq.via = "searcher"
     /\ sq.workspace # None
     /\ sq.stored # {}
     /\ sq.workspace \notin sq.stored)
        => /\ sq.vector_rows = {}
           /\ sq.bm25_docs = {}
           /\ sres.results = <<>>

\* C2: a request POST /v1/{workspace}/search (POST /search: "default") that
\* is answered 200 is answered from chunks of that workspace only: every
\* row and every document the search retrieved carries the workspace of the
\* path.
C2_HttpUsesPathWorkspace ==
    (sq.via = "http" /\ sres.status = 200)
        => /\ \A r \in sq.vector_rows : r.workspace = sq.workspace
           /\ \A d \in sq.bm25_docs : d.workspace = sq.workspace

(***************************************************************************)
(* C11: BM25Index::add_chunks(chunks, W) removes or replaces only          *)
(* documents of workspace W: a document with the same chunk id stored      *)
(* under another workspace is still in the committed index, under its own  *)
(* workspace, after the call and the commit that follows it.               *)
(***************************************************************************)
C11_AddChunksKeepsOtherWorkspaces ==
    [][AddChunks =>
          \A i \in 1..Len(c4.committed) :
              \E j \in 1..Len(c4'.committed) :
                  /\ c4'.committed[j].id = c4.committed[i].id
                  /\ c4'.committed[j].workspace = c4.committed[i].workspace]_vars

\* C12: in an update run for workspace W, a walked file is skipped only if
\* W held, when the run started, a row of that file whose last_modified is
\* the file's mtime, and every file the run lists as stale had a row in W
\* when the run started.
C12_DecisionsUseOwnMetadata ==
    run.pc # "idle" /\ run.update =>
        /\ \A p \in run.visited_files \ hist.processed :
              \E r \in RowsOf(hist.c3_0, run.workspace) :
                  /\ r.filename \in {p, StoredName(p)}
                  /\ r.last_modified = fs[p].mtime
        /\ \A f \in Range(run.stale_files) :
              \E r \in RowsOf(hist.c3_0, run.workspace) : r.filename = f

\* C13 (as stated): no step that leaves a run before its final C4 commit
\* changes the committed content of C4, the run's start included, so a run
\* that stops there leaves C4's committed content as it was before the run
\* started.
C13_CommittedAsBeforeRun ==
    [][run'.pc \in {"walk", "stale"} => c4'.committed = c4.committed]_vars

\* C13 (amended): while a run is before its final C4 commit, the committed
\* content of C4 is what the run found when it opened the index, after the
\* store directory was removed if force was set; C3 may hold the batches
\* added so far.
C13_CommittedAsOpened ==
    run.pc \in {"walk", "stale"} => c4.committed = hist.c4_0

C13_Witness ==
    /\ run.pc \in {"walk", "stale"}
    /\ hist.c4_0 # <<>>
    /\ c4.writer # c4.committed
    /\ Len(c3) > Len(hist.c3_0)

\* The walked files the run has to chunk: the loop does not pass over them
\* (exclusion, extension, size) and, in update mode, their stored
\* last_modified is not their mtime.
MustProcess(p) ==
    /\ p \in hist.walked
    /\ ~filtered_out(p, FileOf(fs[p].content))
    /\ ~(run.update /\ p \in DOMAIN run.existing_files
                    /\ run.existing_files[p] = fs[p].mtime)

\* C14: when an embedding or store call has failed in a run, the run is not
\* aborted; a flush leaves both buffers below the batch size during the
\* walk and empty after it (the failed batch is dropped); once the walk is
\* over every file the run had to chunk has been chunked; and the finished
\* run has called commit once.
C14_FailedFlushDoesNotAbort ==
    hist.failed =>
        /\ run.pc # "aborted"
        /\ Len(run.chunks_buffer) < run.batch_size
        /\ Len(run.pending_deletes) < run.batch_size
        /\ run.pc \in {"stale", "done"} =>
              /\ run.chunks_buffer = <<>> /\ run.pending_deletes = <<>>
              /\ \A p \in IdxPaths : MustProcess(p) => p \in hist.processed
        /\ run.pc = "done" => c4.commits = 1

C14_Witness ==
    /\ run.pc = "done" /\ ~run.update
    /\ hist.failed
    /\ c4.committed = c4.writer /\ c4.committed # hist.c4_0
    /\ \E p \in hist.processed : RowCount(c3, run.workspace, StoredName(p)) = 0

(***************************************************************************)
(* What the claims about one search speak of: the values semantic_search   *)
(* computes for the request that was answered last.                        *)
(***************************************************************************)
Answered == sq.via # "none" /\ sres.status = 200

\* The documents the searcher's BM25 reader sees.
ReqDocs == IF sq.via = "http" THEN srv.cache[sq.workspace].bm25 ELSE c4.committed

ReqHits == vector_hits(c3, sq.env.search_queries, sq.rq, sq.env.rows_per_batch)

ReqBm25 == BM25_search(ReqDocs, sq.rq.query, fetch_limit(sq.rq.limit, sq.rq.no_rerank), None)

\* The candidates with their scores when the rerank step is reached.
PreRerank == scored_candidates(TRUE, sq.env.bm25_ok, vector_candidates(ReqHits, sq.order), ReqHits, ReqBm25, sq.rq.ext, sq.rq.dir)

\* C15: when no_rerank is set or the reranker fails, the returned results
\* are in non-increasing order of their fused RRF score and no candidate
\* left out has a higher score than a returned one.
C15_RrfOrderWithoutRerank ==
    Answered /\ (sq.rq.no_rerank \/ ~sq.env.rerank_ok) =>
        /\ \A i \in 1..(Len(sres.results) - 1) :
              sres.results[i].score >= sres.results[i + 1].score
        /\ \A i \in 1..Len(PreRerank) :
              \/ \E j \in 1..Len(sres.results) :
                    ResultId(sres.results[j]) = ResultId(PreRerank[i])
              \/ \A j \in 1..Len(sres.results) :
                    sres.results[j].score >= PreRerank[i].score

\* The vector hits with every row ranked by its place in its query's whole
\* result list.
WholeListHits == vector_hits(c3, sq.env.search_queries, sq.rq, Len(c3) + 1)

\* C16: when the lexical search succeeds, the pre-rerank score of every
\* candidate is vector_weight times the sum of 1/(rrf_k + rank) over its
\* places in the queries' vector result lists, rank counted through the
\* whole list, plus bm25_weight times 1/(rrf_k + bm25_rank) when the id is
\* a BM25 hit.
C16_ScoreIsWeightedRrfSum ==
    Answered /\ sq.env.bm25_ok =>
        \A i \in 1..Len(PreRerank) :
            LET id == ResultId(PreRerank[i])
                r == bm25_rank(ReqBm25, id)
            IN  PreRerank[i].score =
                    vector_weight * vector_rrf_score(WholeListHits, id)
                    + bm25_weight * (IF r = 0 THEN 0 ELSE compute_rrf_component(r, rrf_k))

\* C17: when the lexical search returns an error, the search is answered
\* and the pre-rerank score of every candidate is vector_weight times its
\* accumulated vector RRF sum, the score a searcher without a BM25 index
\* gives it.
C17_Bm25ErrorGivesVectorScores ==
    Answered /\ ~sq.env.bm25_ok =>
        /\ PreRerank = scored_candidates(FALSE, TRUE, vector_candidates(ReqHits, sq.order), ReqHits, <<>>, sq.rq.ext, sq.rq.dir)
        /\ \A i \in 1..Len(PreRerank) :
              PreRerank[i].score =
                  vector_weight * vector_rrf_score(ReqHits, ResultId(PreRerank[i]))

\* C18: every returned result has a file name that ends with "." + ext,
\* a leading dot of ext stripped, when ext is given, and that contains dir,
\* both with forward slashes, when dir is given.
C18_ResultsPassFilters ==
    Answered =>
        \A i \in 1..Len(sres.results) :
            LET name == FileStr(sres.results[i].filename)
            IN  /\ sq.rq.ext # NoneStr => EndsWith(name, <<".">> \o clean_ext(sq.rq.ext))
                /\ sq.rq.dir # NoneStr => Contains(NormSlashes(name), NormSlashes(sq.rq.dir))

\* C19: every search response holds at most `limit` results and their
\* ranks are 1, 2, ..., n in sequence order, with and without max_tokens.
C19_AtMostLimitRankedInOrder ==
    Answered =>
        /\ Len(sres.results) <= sq.rq.limit
        /\ \A i \in 1..Len(sres.results) : sres.results[i].rank = i

C19_Witness ==
    /\ Answered
    /\ sq.rq.max_tokens # <<>>
    /\ Len(PreRerank) = 2
    /\ Len(sres.results) = 1
    /\ sres.results[1].line_start = 1 /\ sres.results[1].line_end = 7

\* C20: expand(query) gives a sequence whose first element is the query,
\* that holds no string twice and that holds every non-empty trimmed
\* comma-separated term of the model's reply.
C20_ExpandKeepsQueryFirst ==
    sq.via # "none" /\ sq.env.expanded =>
        LET out == expand(sq.rq.query, sq.env.reply)
            terms == reply_terms(sq.env.reply)
        IN  /\ out[1] = sq.rq.query
            /\ \A i, j \in 1..Len(out) : i # j => out[i] # out[j]
            /\ \A k \in 1..Len(terms) : \E i \in 1..Len(out) : out[i] = terms[k]

(***************************************************************************)
(* ContextOptimizer::optimize applied to result lists (SpecOptimize).      *)
(***************************************************************************)
MaxResults == 3      \* longest result list handed to optimize
MaxBudget  == 6      \* largest token_limit of a ContextOptimizer

SearchResult(filename, line_start, line_end, code, score) ==
    [rank |-> 0, score |-> score, filename |-> filename, code |-> code,
     line_start |-> line_start, line_end |-> line_end]

\* Search results of two files: touching ranges (1-3, 4-6), a range 5 lines
\* after another's end (3 -> 8) and one 6 lines after (3 -> 9), a range
\* inside another (9-9 in 8-12), and two results of equal score.
OptPool ==
    LET a == MkPath(<<"a">>, "rs")
        b == MkPath(<<"d", "/", "b">>, "rs")
    IN  { SearchResult(a, 1, 3, <<"a", "b">>, 5),
          SearchResult(a, 4, 6, <<"c">>, 2),
          SearchResult(a, 8, 12, <<"d", "e">>, 7),
          SearchResult(a, 9, 9, <<"f">>, 1),
          SearchResult(a, 17, 18, <<"g">>, 3),
          SearchResult(b, 1, 3, <<"h", "i">>, 5) }

\* Vec<SearchResult> in rank order: distinct results, rank = place.
OptResults ==
    LET picks == UNION {[1..n -> OptPool] : n \in 0..MaxResults}
        distinct(q) == \A i, j \in 1..Len(q) : q[i] = q[j] => i = j
    IN  {[i \in 1..Len(q) |-> [q[i] EXCEPT !.rank = i]] : q \in {p \in picks : distinct(p)}}

\* One call: the optimizer's limit, the results, and the order in which
\* the HashMap by_file yields its keys.
OptCalls ==
    UNION {{[pc |-> "ready", results |-> rs, token_limit |-> tl, file_order |-> fo,
             all_merged |-> <<>>, out |-> <<>>] :
               tl \in 0..MaxBudget,
               fo \in SeqsOf({rs[i].filename : i \in 1..Len(rs)})} : rs \in OptResults}

\* Everything but the later harnesses, as constructed.
OldIdle ==
    /\ ck_cfg = idx_chunker /\ ck_in = <<>> /\ ck_out = <<>> /\ ck_pc = "idle"
    /\ fs = <<>> /\ c3 = <<>> /\ c4 = BM25_new(<<>>)
    /\ run = <<>> /\ hist = <<>> /\ runs_left = 0 /\ nedits = 0 /\ fail_left = 0
    /\ srv = <<>> /\ sq = <<>> /\ sres = <<>>

OptInit ==
    /\ opt \in OptCalls
    /\ OldIdle
    /\ st = <<>> /\ wm = <<>> /\ wt = <<>> /\ sp = <<>> /\ bh = <<>>

\* optimize runs to its return: all_merged as it is after the file loop
\* (before the sort by score), out the value returned.
Optimize ==
    /\ opt.pc = "ready"
    /\ opt' = [opt EXCEPT
                  !.pc = "done",
                  !.all_merged = IF opt.results = <<>> THEN <<>>
                                 ELSE coalesce_files(opt.results, opt.file_order),
                  !.out = optimize(opt.results, opt.token_limit, opt.file_order)]
    /\ UNCHANGED optOthers

OptAgain ==
    /\ opt.pc = "done"
    /\ opt' \in OptCalls
    /\ UNCHANGED optOthers

OptNext ==
    \/ Optimize
    \/ OptAgain

SpecOptimize == OptInit /\ [][OptNext]_vars

RECURSIVE SumTokens(_)
SumTokens(chunks) ==
    IF chunks = <<>> THEN 0 ELSE Tokens(Head(chunks).code) + SumTokens(Tail(chunks))

\* C21: the chunks optimize returns cost at most token_limit tokens in
\* all; each is one of the merged chunks, whole; and a merged chunk is left
\* out exactly when, at its turn in score order, it did not fit what
\* remained of the budget.
C21_SelectionWithinBudget ==
    opt.pc = "done" =>
        LET sorted == by_max_score(opt.all_merged)
            kept(i) == \E k \in 1..Len(opt.out) : opt.out[k] = sorted[i]
            spent(i) == SumTokens(SelectSeq(SubSeq(sorted, 1, i - 1),
                                            LAMBDA m : \E k \in 1..Len(opt.out) : opt.out[k] = m))
        IN  /\ SumTokens(opt.out) <= opt.token_limit
            /\ \A k \in 1..Len(opt.out) : \E i \in 1..Len(sorted) : opt.out[k] = sorted[i]
            /\ \A i \in 1..Len(sorted) :
                   kept(i) <=> spent(i) + Tokens(sorted[i].code) <= opt.token_limit

\* A call where a chunk did not fit and a chunk of lower score was kept.
C21_Witness ==
    /\ opt.pc = "done"
    /\ LET sorted == by_max_score(opt.all_merged)
       IN  \E i, j \in 1..Len(sorted) :
               /\ i < j
               /\ sorted[i].max_score > sorted[j].max_score
               /\ \A k \in 1..Len(opt.out) : opt.out[k] # sorted[i]
               /\ \E k \in 1..Len(opt.out) : opt.out[k] = sorted[j]

\* One file's results in the order the loop visits them (stable sort by
\* line_start of the results in rank order).
InLineOrder(f) ==
    LET of_file == SelectSeq(opt.results, LAMBDA r : r.filename = f)
    IN  SortByKey(of_file, [i \in 1..Len(of_file) |-> of_file[i].line_start])

\* grp assigns each of a file's results, in line order, to one of the
\* file's merged chunks, and the chunks are what C22 says: result i joins
\* the chunk of result i - 1 iff it starts at most 5 lines after that
\* chunk's end so far; a chunk spans from its least line_start to its
\* greatest line_end; its code is its members' codes joined by "\n", with
\* the gap marker before exactly the members that start more than one line
\* after the chunk's end so far.
IsGrouping(rs, chunks, grp) ==
    LET n == Len(rs)
        members(k) == {i \in 1..n : grp[i] = k}
        end_so_far(i) == LET before == {rs[j].line_end : j \in {j \in 1..i : grp[j] = grp[i]}}
                         IN  CHOOSE e \in before : \A x \in before : x <= e
        piece(i) == IF i = 1 \/ grp[i] # grp[i - 1] THEN rs[i].code
                    ELSE <<"\n">>
                         \o (IF rs[i].line_start > end_so_far(i - 1) + 1
                             THEN <<"... (gap) ...\n">> ELSE <<>>)
                         \o rs[i].code
    IN  /\ grp[1] = 1 /\ grp[n] = Len(chunks)
        /\ \A i \in 2..n :
               /\ grp[i] \in {grp[i - 1], grp[i - 1] + 1}
               /\ grp[i] = grp[i - 1] <=> rs[i].line_start <= end_so_far(i - 1) + 5
        /\ \A k \in 1..Len(chunks) :
               /\ \A i \in members(k) : /\ chunks[k].start_line <= rs[i].line_start
                                        /\ chunks[k].end_line >= rs[i].line_end
               /\ \E i \in members(k) : chunks[k].start_line = rs[i].line_start
               /\ \E i \in members(k) : chunks[k].end_line = rs[i].line_end
               /\ chunks[k].code = Concat(SelectSeq([i \in 1..n |-> IF grp[i] = k THEN piece(i) ELSE <<"skip">>], LAMBDA c : c # <<"skip">>))

\* C22: for every file of the results, the file's merged chunks are the
\* groups of its results in line order formed by the 5-line rule, with the
\* extents and the gap markers the rule gives.
C22_MergedByFiveLineRule ==
    opt.pc = "done" =>
        \A f \in {opt.results[i].filename : i \in 1..Len(opt.results)} :
            LET rs == InLineOrder(f)
                chunks == SelectSeq(opt.all_merged, LAMBDA m : m.filename = f)
            IN  \E grp \in [1..Len(rs) -> 1..Len(rs)] : IsGrouping(rs, chunks, grp)

\* A file with three results: two merged across a gap of at most 5 lines,
\* one more than 5 lines after the merged chunk's end and left apart.
C22_Witness ==
    /\ opt.pc = "done"
    /\ \E i, j \in 1..Len(opt.all_merged) :
           /\ i # j
           /\ opt.all_merged[i].filename = opt.all_merged[j].filename
           /\ \E c \in 1..Len(opt.all_merged[i].code) :
                  opt.all_merged[i].code[c] = "... (gap) ...\n"

(***************************************************************************)
(* CodeChunker::split_text applied to texts (SpecSplit).                   *)
(***************************************************************************)
MaxTextLen == 6      \* longest text handed to split_text

\* One call: the chunker's two settings and the text. Texts are over two
\* characters, so that both texts whose characters repeat and texts whose
\* neighbours differ occur.
SplitCalls ==
    LET texts == UNION {[1..n -> {"a", "b"}] : n \in 0..MaxTextLen}
    IN  {[pc |-> "ready", max_chunk_size |-> m, chunk_overlap |-> o, text |-> t, out |-> <<>>] :
            m \in 1..MaxChunkSize, o \in 0..MaxOverlap, t \in texts}

StInit ==
    /\ st \in SplitCalls
    /\ OldIdle
    /\ opt = <<>> /\ wm = <<>> /\ wt = <<>> /\ sp = <<>> /\ bh = <<>>

SplitText ==
    /\ st.pc = "ready"
    /\ st' = [st EXCEPT !.pc = "done",
                        !.out = split_text(st.text, st.max_chunk_size, st.chunk_overlap)]
    /\ UNCHANGED stOthers

SplitAgain ==
    /\ st.pc = "done"
    /\ st' \in SplitCalls
    /\ UNCHANGED stOthers

StNext ==
    \/ SplitText
    \/ SplitAgain

SpecSplit == StInit /\ [][StNext]_vars

\* C23: every chunk of split_text has at most max_chunk_size characters;
\* with 1 <= chunk_overlap < max_chunk_size each chunk after the first
\* begins with the last chunk_overlap characters of the chunk before it
\* (as many of them as the chunk has, should it be shorter than that).
C23_ChunksBoundedAndOverlapping ==
    st.pc = "done" =>
        /\ \A i \in 1..Len(st.out) : Len(st.out[i]) <= st.max_chunk_size
        /\ (st.chunk_overlap >= 1 /\ st.max_chunk_size > st.chunk_overlap) =>
               \A i \in 2..Len(st.out) :
                   LET prev == st.out[i - 1]
                       k == Min(st.chunk_overlap, Len(st.out[i]))
                       from == Len(prev) - st.chunk_overlap
                   IN  /\ from >= 0
                       /\ SubSeq(st.out[i], 1, k) = SubSeq(prev, from + 1, from + k)
                       /\ i < Len(st.out) => k = st.chunk_overlap

\* A text cut into three chunks by a chunker with an overlap, its
\* neighbouring characters different.
C23_Witness ==
    /\ st.pc = "done"
    /\ st.chunk_overlap >= 1 /\ st.max_chunk_size > st.chunk_overlap
    /\ Len(st.out) >= 3
    /\ \A i \in 1..(Len(st.text) - 1) : st.text[i] # st.text[i + 1]

(***************************************************************************)
(* WorkspaceManager::get_search_context called by concurrent tasks         *)
(* (SpecContexts).  A context is the number of the load that built it, 0   *)
(* where there is none.  A task's steps are the accesses to the two        *)
(* DashMaps and to the workspace's tokio Mutex; a task waiting for the     *)
(* Mutex or for load_search_context is at an await and may be dropped.     *)
(***************************************************************************)
NumTasks   == 3      \* concurrent callers of get_search_context
MaxCalls   == 4      \* calls made in one behaviour
MaxLoadErr == 1      \* loads that fail in one behaviour

Tasks == 1..NumTasks

\* A task outside get_search_context; missed records that the first lookup
\* of its call found nothing (history only).
NoCall ==
    [pc |-> "idle", workspace_id |-> "default", context |-> 0, holds |-> FALSE,
     ok |-> FALSE, missed |-> FALSE]

\* The get of the double check (line 78); and what it is without one.
recheck_skipped(workspaces, workspace_id) == 0
recheck(workspaces, workspace_id) == workspaces[workspace_id]

\* The key of loading_locks under which a workspace's Mutex is kept
\* (line 70); and what it is with one Mutex for all.
lock_key_shared(workspace_id) == "default"
lock_key(workspace_id) == workspace_id

\* WorkspaceManager::new
WmInit ==
    /\ wm = [workspaces |-> [w \in Workspaces |-> 0],
             loading_locks |-> [w \in Workspaces |-> [exists |-> FALSE, held_by |-> 0]],
             tasks |-> [t \in Tasks |-> NoCall],
             loads |-> [w \in Workspaces |-> 0],
             inserts |-> [w \in Workspaces |-> 0],
             load_errs |-> [w \in Workspaces |-> 0],
             calls_left |-> MaxCalls,
             errs_left |-> MaxLoadErr]
    /\ OldIdle
    /\ opt = <<>> /\ st = <<>> /\ wt = <<>> /\ sp = <<>> /\ bh = <<>>

\* The guard _guard is dropped when the function returns or is dropped.
Unlocked(locks, t) ==
    [k \in DOMAIN locks |-> IF locks[k].held_by = t THEN [locks[k] EXCEPT !.held_by = 0] ELSE locks[k]]

\* Line 83: `?` returns the error of the load, and _guard is dropped with
\* the function's frame; and a return that keeps the Mutex locked.
held_on_error(locks, t) == locks
release_on_error(locks, t) == Unlocked(locks, t)

\* A request handler calls get_search_context(workspace_id).
WmCall(t, w) ==
    /\ wm.tasks[t].pc = "idle"
    /\ wm.calls_left > 0
    /\ wm' = [wm EXCEPT !.calls_left = @ - 1,
                        !.tasks[t] = [NoCall EXCEPT !.pc = "get", !.workspace_id = w]]
    /\ UNCHANGED wmOthers

\* Lines 62-64: the cached context, returned at once.
WmGet(t) ==
    /\ wm.tasks[t].pc = "get"
    /\ LET entry == wm.workspaces[wm.tasks[t].workspace_id]
       IN  wm' = IF entry # 0
                 THEN [wm EXCEPT !.tasks[t].pc = "returned", !.tasks[t].ok = TRUE,
                                 !.tasks[t].context = entry]
                 ELSE [wm EXCEPT !.tasks[t].pc = "entry", !.tasks[t].missed = TRUE]
    /\ UNCHANGED wmOthers

\* Lines 68-72: the workspace's Mutex, created if there is none.
WmLockEntry(t) ==
    /\ wm.tasks[t].pc = "entry"
    /\ wm' = [wm EXCEPT !.tasks[t].pc = "lock",
                        !.loading_locks[lock_key(wm.tasks[t].workspace_id)].exists = TRUE]
    /\ UNCHANGED wmOthers

\* Line 75: lock.lock().await completes when the Mutex is free.
WmLock(t) ==
    /\ wm.tasks[t].pc = "lock"
    /\ wm.loading_locks[lock_key(wm.tasks[t].workspace_id)].held_by = 0
    /\ wm' = [wm EXCEPT !.tasks[t].pc = "recheck", !.tasks[t].holds = TRUE,
                        !.loading_locks[lock_key(wm.tasks[t].workspace_id)].held_by = t]
    /\ UNCHANGED wmOthers

\* Lines 78-80: the double check; a hit returns and drops the guard.
WmRecheck(t) ==
    /\ wm.tasks[t].pc = "recheck"
    /\ LET entry == recheck(wm.workspaces, wm.tasks[t].workspace_id)
       IN  wm' = IF entry # 0
                 THEN [wm EXCEPT !.tasks[t].pc = "returned", !.tasks[t].ok = TRUE,
                                 !.tasks[t].context = entry, !.tasks[t].holds = FALSE,
                                 !.loading_locks = Unlocked(@, t)]
                 ELSE [wm EXCEPT !.tasks[t].pc = "load"]
    /\ UNCHANGED wmOthers

\* Lines 83-84: load_search_context(...).await returns a new context, or
\* an error, with which the function returns.
WmLoad(t, loaded) ==
    /\ wm.tasks[t].pc = "load"
    /\ ~loaded => wm.errs_left > 0
    /\ LET w == wm.tasks[t].workspace_id
           built == wm.loads["default"] + wm.loads["w1"] + 1
       IN  wm' = IF loaded
                 THEN [wm EXCEPT !.tasks[t].pc = "insert", !.tasks[t].context = built,
                                 !.loads[w] = @ + 1]
                 ELSE [wm EXCEPT !.tasks[t].pc = "returned", !.tasks[t].ok = FALSE,
                                 !.tasks[t].holds = FALSE, !.errs_left = @ - 1,
                                 !.load_errs[w] = @ + 1,
                                 !.loading_locks = release_on_error(@, t)]
    /\ UNCHANGED wmOthers

\* Lines 86-93: the insertion, and the return that drops the guard.
WmInsert(t) ==
    /\ wm.tasks[t].pc = "insert"
    /\ wm' = [wm EXCEPT !.workspaces[wm.tasks[t].workspace_id] = wm.tasks[t].context,
                        !.inserts[wm.tasks[t].workspace_id] = @ + 1,
                        !.tasks[t].pc = "return"]
    /\ UNCHANGED wmOthers

WmReturn(t) ==
    /\ wm.tasks[t].pc = "return"
    /\ wm' = [wm EXCEPT !.tasks[t].pc = "returned", !.tasks[t].ok = TRUE,
                        !.tasks[t].holds = FALSE, !.loading_locks = Unlocked(@, t)]
    /\ UNCHANGED wmOthers

\* The caller's future is dropped at one of the two awaits.
WmDropped(t) ==
    /\ wm.tasks[t].pc \in {"lock", "load"}
    /\ wm' = [wm EXCEPT !.tasks[t] = NoCall, !.loading_locks = Unlocked(@, t)]
    /\ UNCHANGED wmOthers

\* The caller goes on with what it was given.
WmDone(t) ==
    /\ wm.tasks[t].pc = "returned"
    /\ wm' = [wm EXCEPT !.tasks[t] = NoCall]
    /\ UNCHANGED wmOthers

WmCalls    == \E t \in Tasks, w \in Workspaces : WmCall(t, w)
WmGets     == \E t \in Tasks : WmGet(t)
WmEntries  == \E t \in Tasks : WmLockEntry(t)
WmLocks    == \E t \in Tasks : WmLock(t)
WmRechecks == \E t \in Tasks : WmRecheck(t)
WmLoads    == \E t \in Tasks, loaded \in BOOLEAN : WmLoad(t, loaded)
WmInserts  == \E t \in Tasks : WmInsert(t)
WmReturns  == \E t \in Tasks : WmReturn(t)
WmDrops    == \E t \in Tasks : WmDropped(t)
WmDones    == \E t \in Tasks : WmDone(t)

WmNext ==
    \/ WmCalls
    \/ WmGets
    \/ WmEntries
    \/ WmLocks
    \/ WmRechecks
    \/ WmLoads
    \/ WmInserts
    \/ WmReturns
    \/ WmDrops
    \/ WmDones

SpecContexts == WmInit /\ [][WmNext]_vars

\* The runtime polls every task that can go on, and tokio's Mutex grants
\* the lock in the order of the requests: a step of a call that stays
\* possible is taken, and a caller that can again and again take the lock
\* takes it.
WmTaskStep(t) ==
    \/ WmGet(t) \/ WmLockEntry(t) \/ WmRecheck(t)
    \/ WmLoad(t, TRUE) \/ WmLoad(t, FALSE)
    \/ WmInsert(t) \/ WmReturn(t)

SpecContextsFair ==
    /\ WmInit /\ [][WmNext]_vars
    /\ \A t \in Tasks : WF_vars(WmTaskStep(t)) /\ SF_vars(WmLock(t))

\* C24: for each workspace at most one context is built and at most one
\* insertion made; a caller that was given a context was given the cached
\* one; and a cached entry is never removed or replaced.
C24_OneContextPerWorkspace ==
    /\ [](\A w \in Workspaces : wm.loads[w] <= 1 /\ wm.inserts[w] <= 1)
    /\ [](\A t \in Tasks :
              (wm.tasks[t].pc = "returned" /\ wm.tasks[t].ok) =>
                  /\ wm.tasks[t].context # 0
                  /\ wm.tasks[t].context = wm.workspaces[wm.tasks[t].workspace_id])
    /\ [][\A w \in Workspaces :
              wm.workspaces[w] # 0 => wm'.workspaces[w] = wm.workspaces[w]]_vars

\* Two callers of one workspace, both past the first lookup before the
\* context was cached, both returned with it.
C24_Witness ==
    \E t, u \in Tasks :
        /\ t # u
        /\ wm.tasks[t].pc = "returned" /\ wm.tasks[t].ok
        /\ wm.tasks[u].pc = "returned" /\ wm.tasks[u].ok
        /\ wm.tasks[t].workspace_id = wm.tasks[u].workspace_id
        /\ wm.tasks[t].missed /\ wm.tasks[u].missed

\* C25: a call that finds the workspace cached returns the entry and
\* leaves the Mutexes alone; a task waiting for a Mutex waits for a task
\* of its own workspace; and a Mutex is held only by a task between its
\* acquisition and its return, which it entered on a cache miss.
C25_CachedWithoutLockAndLocksPerWorkspace ==
    /\ [][\A t \in Tasks :
              (/\ wm.tasks[t].pc = "get"
               /\ wm.workspaces[wm.tasks[t].workspace_id] # 0
               /\ wm'.tasks[t] # wm.tasks[t]) =>
                  /\ wm'.tasks[t].pc = "returned" /\ wm'.tasks[t].ok
                  /\ wm'.tasks[t].context = wm.workspaces[wm.tasks[t].workspace_id]
                  /\ wm'.loading_locks = wm.loading_locks]_vars
    /\ [](\A t \in Tasks :
              wm.tasks[t].pc = "lock" =>
                  LET holder == wm.loading_locks[lock_key(wm.tasks[t].workspace_id)].held_by
                  IN  holder # 0 => wm.tasks[holder].workspace_id = wm.tasks[t].workspace_id)
    /\ [](\A k \in Workspaces :
              LET holder == wm.loading_locks[k].held_by
              IN  holder # 0 =>
                      /\ wm.tasks[holder].pc \in {"recheck", "load", "insert", "return"}
                      /\ wm.tasks[holder].missed
                      /\ lock_key(wm.tasks[holder].workspace_id) = k)

\* Two tasks loading two workspaces at once, each under its own Mutex.
C25_Witness ==
    \E t, u \in Tasks :
        /\ wm.tasks[t].pc = "load" /\ wm.tasks[u].pc = "load"
        /\ wm.tasks[t].workspace_id # wm.tasks[u].workspace_id
        /\ wm.loading_locks[wm.tasks[t].workspace_id].held_by = t
        /\ wm.loading_locks[wm.tasks[u].workspace_id].held_by = u

\* C26: an HTTP search for a workspace that has no indexed data is
\* answered 404, never 200; every other HTTP search is answered 200.
C26_UnknownWorkspaceIs404 ==
    sq.via = "http" =>
        IF sq.workspace \in sq.stored THEN sres.status = 200 ELSE sres.status = 404

(***************************************************************************)
(* The file watcher (SpecWatch): start_watcher's loop over the debounced   *)
(* events of one watched tree, with the CodeIndexer it owns.  The stores   *)
(* are c3 and c4; nothing in the loop commits c4, so what the watcher has  *)
(* put there is in c4.writer.                                              *)
(***************************************************************************)
MaxWatchEdits == 3      \* file-system changes in one behaviour
MaxPending    == 2      \* debounced events waiting in the channel
MaxWatchFail  == 1      \* failing calls in one behaviour

watch_workspace == "default"

\* Paths the debouncer reports: a file at the root, one below a directory
\* (with the separator of Windows), one below a directory named target,
\* one whose own name begins with target, and one with no language.
WatchPaths ==
    {P_a_rs, P_db_rs, P_n_txt,
     MkPath(<<"t", "a", "r", "g", "e", "t", "/", "x">>, "rs"),
     MkPath(<<"t", "a", "r", "g", "e", "t", "s">>, "rs")}
WatchContents == {"fn", "two", "long"}

\* Lines 51-54: the four substrings for which an event is passed over.
watch_excluded(path_lossy) ==
    \/ Contains(path_lossy, <<".", "g", "i", "t">>)
    \/ Contains(path_lossy, <<"n", "o", "d", "e", "_", "m", "o", "d", "u", "l", "e", "s">>)
    \/ Contains(path_lossy, <<"t", "a", "r", "g", "e", "t">>)
    \/ Contains(path_lossy, <<".", "l", "a", "n", "c", "e", "d", "b">>)

\* The calls of index_file and remove_file that may fail.
WtNoFail ==
    [del3 |-> FALSE, del4 |-> FALSE, open |-> FALSE, embed |-> FALSE,
     add3 |-> FALSE, add4 |-> FALSE]
WatchFailures ==
    {[WtNoFail EXCEPT !.del3 = TRUE], [WtNoFail EXCEPT !.del4 = TRUE],
     [WtNoFail EXCEPT !.open = TRUE], [WtNoFail EXCEPT !.embed = TRUE],
     [WtNoFail EXCEPT !.add3 = TRUE], [WtNoFail EXCEPT !.add4 = TRUE]}

\* index_file, lines 50-59: the old entries of fname_str are deleted from
\* both stores; a failing delete is logged and passed over.
index_file_cleaned(t3, t4, fname_str, workspace, fl) ==
    [c3 |-> IF fl.del3 THEN t3 ELSE Storage_delete_file_chunks(t3, fname_str),
     c4 |-> IF fl.del4 THEN t4 ELSE BM25_delete_file(t4, fname_str, workspace)]

\* index_file, lines 91-122: the chunks are added to both stores; a
\* failing add is logged and passed over.
index_file_stored(cleaned, chunks, workspace, fl) ==
    [c3 |-> IF fl.add3 THEN cleaned.c3
            ELSE Storage_add_chunks(cleaned.c3, workspace,
                     [i \in 1..Len(chunks) |-> ChunkId(chunks[i])], chunks),
     c4 |-> IF fl.add4 THEN cleaned.c4 ELSE BM25_add_chunks(cleaned.c4, chunks, workspace)]

\* CodeIndexer::index_file(path, mtime); it returns Ok(()) on every path.
index_file(t3, t4, chunker, workspace, path, mtime, file, fl) ==
    LET chunks == chunk_file(chunker, path, file, mtime)
    IN  IF ~get_language(Extension(path)) THEN [c3 |-> t3, c4 |-> t4, ok |-> TRUE]
        ELSE IF fl.open \/ chunks = <<>> \/ fl.embed
        THEN [ok |-> TRUE] @@ index_file_cleaned(t3, t4, path, workspace, fl)
        ELSE [ok |-> TRUE] @@ index_file_stored(index_file_cleaned(t3, t4, path, workspace, fl), chunks, workspace, fl)

\* CodeIndexer::remove_file(path): each delete's error is returned.
remove_file(t3, t4, workspace, path, fl) ==
    IF fl.del3 THEN [c3 |-> t3, c4 |-> t4, ok |-> FALSE]
    ELSE IF fl.del4 THEN [c3 |-> Storage_delete_file_chunks(t3, path), c4 |-> t4, ok |-> FALSE]
    ELSE [c3 |-> Storage_delete_file_chunks(t3, path),
          c4 |-> BM25_delete_file(t4, path, workspace), ok |-> TRUE]

\* What the loop did with an event: did is "nothing", "index" or "remove".
NoEvent ==
    [path |-> P_a_rs, did |-> "none", existed |-> FALSE, mtime |-> 0,
     content |-> "fn", logged |-> FALSE, fl |-> WtNoFail]

\* The body of the loop for one event (lines 47-84).
handle_event(t3, t4, files, path, fl) ==
    IF watch_excluded(FileStr(path))
    THEN [c3 |-> t3, c4 |-> t4, did |-> "nothing", logged |-> FALSE]
    ELSE IF files[path].present
    THEN LET out == index_file(t3, t4, idx_chunker, watch_workspace, path,
                               files[path].mtime, FileOf(files[path].content), fl)
         IN  [c3 |-> out.c3, c4 |-> out.c4, did |-> "index", logged |-> ~out.ok]
    ELSE LET out == remove_file(t3, t4, watch_workspace, path, fl)
         IN  [c3 |-> out.c3, c4 |-> out.c4, did |-> "remove", logged |-> ~out.ok]

\* start_watcher, lines 19-41: the stores as opened, no event yet.
WtInit ==
    /\ fs = [p \in WatchPaths |-> NoFile]
    /\ c3 = <<>>
    /\ c4 = BM25_new(<<>>)
    /\ wt = [events |-> <<>>, running |-> TRUE, last |-> NoEvent,
             edits_left |-> MaxWatchEdits, fail_left |-> MaxWatchFail]
    /\ ck_cfg = idx_chunker /\ ck_in = <<>> /\ ck_out = <<>> /\ ck_pc = "idle"
    /\ run = <<>> /\ hist = <<>> /\ runs_left = 0 /\ nedits = 0 /\ fail_left = 0
    /\ srv = <<>> /\ sq = <<>> /\ sres = <<>>
    /\ opt = <<>> /\ st = <<>> /\ wm = <<>> /\ sp = <<>> /\ bh = <<>>

\* The debouncer reports a path once for the changes of its 2 seconds.
Debounced(events, path) ==
    IF \E i \in 1..Len(events) : events[i] = path THEN events ELSE Append(events, path)

\* A file of the tree is written; its mtime is the time of the write.
WtWrite ==
    /\ wt.edits_left > 0
    /\ \E path \in WatchPaths, content \in WatchContents :
         /\ Len(Debounced(wt.events, path)) <= MaxPending
         /\ fs' = [fs EXCEPT ![path] = MkFile(MaxWatchEdits - wt.edits_left + 1, content)]
         /\ wt' = [wt EXCEPT !.edits_left = @ - 1, !.events = Debounced(@, path)]
    /\ UNCHANGED <<c3, c4>>
    /\ UNCHANGED wtOthers

\* A file of the tree is removed.
WtRemove ==
    /\ wt.edits_left > 0
    /\ \E path \in WatchPaths :
         /\ fs[path].present
         /\ Len(Debounced(wt.events, path)) <= MaxPending
         /\ fs' = [fs EXCEPT ![path] = NoFile]
         /\ wt' = [wt EXCEPT !.edits_left = @ - 1, !.events = Debounced(@, path)]
    /\ UNCHANGED <<c3, c4>>
    /\ UNCHANGED wtOthers

\* One turn of `for event in events`, every call succeeding.
WtHandle ==
    /\ wt.running
    /\ wt.events # <<>>
    /\ LET path == Head(wt.events)
           out == handle_event(c3, c4, fs, path, WtNoFail)
       IN  /\ c3' = out.c3
           /\ c4' = out.c4
           /\ wt' = [wt EXCEPT !.events = Tail(@),
                               !.last = [path |-> path, did |-> out.did,
                                         existed |-> fs[path].present,
                                         mtime |-> fs[path].mtime,
                                         content |-> fs[path].content,
                                         logged |-> out.logged, fl |-> WtNoFail]]
    /\ UNCHANGED fs
    /\ UNCHANGED wtOthers

\* One turn in which a call of index_file or remove_file fails.
WtHandleFailing ==
    /\ wt.running
    /\ wt.events # <<>>
    /\ wt.fail_left > 0
    /\ \E fl \in WatchFailures :
         LET path == Head(wt.events)
             out == handle_event(c3, c4, fs, path, fl)
         IN  /\ c3' = out.c3
             /\ c4' = out.c4
             /\ wt' = [wt EXCEPT !.events = Tail(@), !.fail_left = @ - 1,
                                 !.last = [path |-> path, did |-> out.did,
                                           existed |-> fs[path].present,
                                           mtime |-> fs[path].mtime,
                                           content |-> fs[path].content,
                                           logged |-> out.logged, fl |-> fl]]
    /\ UNCHANGED fs
    /\ UNCHANGED wtOthers

WtNext ==
    \/ WtWrite
    \/ WtRemove
    \/ WtHandle
    \/ WtHandleFailing

SpecWatch == WtInit /\ [][WtNext]_vars

\* The loop `for result in rx` takes every event the channel holds: a
\* waiting event is handled.
SpecWatchFair == WtInit /\ [][WtNext]_vars /\ WF_vars(WtHandle)

\* The components of a path: its pieces between separators.
RECURSIVE Components(_, _)
Components(str, piece) ==
    IF str = <<>> THEN {piece}
    ELSE IF Head(str) \in {"/", "\\"} THEN {piece} \cup Components(Tail(str), <<>>)
    ELSE Components(Tail(str), Append(piece, Head(str)))

ExcludedNames ==
    {<<".", "g", "i", "t">>,
     <<"n", "o", "d", "e", "_", "m", "o", "d", "u", "l", "e", "s">>,
     <<"t", "a", "r", "g", "e", "t">>,
     <<".", "l", "a", "n", "c", "e", "d", "b">>}

\* C27: for the event last handled the watcher did nothing if the path
\* has an excluded component, and otherwise called index_file if the path
\* existed and remove_file if it did not; and the loop is still running.
C27_OneOfNothingIndexRemove ==
    wt.last.did # "none" =>
        /\ wt.running
        /\ wt.last.did =
               IF Components(FileStr(wt.last.path), <<>>) \cap ExcludedNames # {} THEN "nothing"
               ELSE IF wt.last.existed THEN "index" ELSE "remove"

\* The chunks of the watcher's workspace that a store holds under the
\* name chunk_file gives a path.
HeldUnder(rows, path) ==
    SelectSeq(rows, LAMBDA r : r.filename = ReplaceBackslash(path) /\ r.workspace = watch_workspace)

\* C28: after index_file has run for a supported file, with every call
\* succeeding, each store holds for the file exactly the chunks of its
\* current content.
C28_IndexFileLeavesCurrentChunks ==
    (/\ wt.last.did = "index"
     /\ wt.last.fl = WtNoFail
     /\ get_language(Extension(wt.last.path))) =>
        LET chunks == chunk_file(idx_chunker, wt.last.path, FileOf(wt.last.content), wt.last.mtime)
        IN  /\ HeldUnder(c3, wt.last.path)
                 = [i \in 1..Len(chunks) |-> MkRow(watch_workspace, ChunkId(chunks[i]), chunks[i])]
            /\ HeldUnder(c4.writer, wt.last.path)
                 = [i \in 1..Len(chunks) |-> MkDoc(watch_workspace, chunks[i])]

(***************************************************************************)
(* commands::start::run (SpecStart): the auto-index loop, the BM25         *)
(* pre-initialisation loop, and the tasks it spawns.  A directory is the   *)
(* sequence of its components below nothing: <<"db">> is config.db_path.   *)
(* IndexWriter creation takes tantivy's lock on the directory: it fails    *)
(* while another writer on the directory is alive.                         *)
(***************************************************************************)
db_path == <<"db">>

\* Lines 32-39, 86-90, 149-153: a workspace's directory.
workspace_db_path(name) == IF name = "default" THEN db_path ELSE Append(db_path, name)

\* load_search_context, lines 122 and 133: the directory whose stores the
\* server opens for a workspace.
context_db_path(workspace_id) == db_path

IndexDirs == {workspace_db_path(name) : name \in Workspaces}

\* config.workspaces (its keys) with the three enable_ flags; run returns
\* at once when no service is enabled.
StartConfigs ==
    {c \in [enable_server : BOOLEAN, enable_mcp : BOOLEAN, enable_watch : BOOLEAN,
            workspaces : {{}, {"w1"}, {"default", "w1"}}] :
        c.enable_server \/ c.enable_mcp \/ c.enable_watch}

\* Lines 20-29 and 81-92: the workspaces the two loops go through.
workspaces_to_index(config) ==
    IF config.workspaces = {} THEN {"default"} ELSE config.workspaces

\* BM25Index::new(dir, false, ..): index.writer() (bm25.rs:94) fails when
\* the directory's writer lock is taken.
open_writer(handles, dir) ==
    IF handles[dir].writers > 0
    THEN [ok |-> FALSE, handles |-> handles]
    ELSE [ok |-> TRUE, handles |-> [handles EXCEPT ![dir].writers = @ + 1]]

\* BM25Index::new(dir, true, ..): no writer is created (bm25.rs:91-92).
open_reader(handles, dir) == [handles EXCEPT ![dir].readers = @ + 1]

\* A writable BM25Index is dropped.
drop_writer(handles, dir) == [handles EXCEPT ![dir].writers = @ - 1]

\* The value of BM25Index::new at line 97 at the end of the `if let`:
\* it is a temporary and dropped there; and what is left were it kept.
preinit_kept(handles, dir) == handles
preinit_dropped(handles, dir) == drop_writer(handles, dir)

SpInit ==
    /\ \E config \in StartConfigs, indexed \in SUBSET IndexDirs :
         sp = [pc |-> IF config.enable_server \/ config.enable_watch THEN "auto" ELSE "spawn",
               config |-> config,
               todo |-> IF config.enable_server \/ config.enable_watch
                        THEN workspaces_to_index(config) ELSE {},
               holding |-> <<>>,
               watchers |-> [name \in Workspaces |-> "none"],
               handles |-> [dir \in IndexDirs |-> [writers |-> 0, readers |-> 0]],
               lance |-> indexed,
               contexts |-> {}, mcp |-> "none",
               server_handles |-> {}, busy |-> 0, indexed_now |-> {}]
    /\ OldIdle
    /\ opt = <<>> /\ st = <<>> /\ wm = <<>> /\ wt = <<>> /\ bh = <<>>

\* Lines 41-43, 66-71: the workspace has its table and is passed over.
SpAutoSkip ==
    /\ sp.pc = "auto" /\ sp.holding = <<>>
    /\ \E name \in sp.todo :
         /\ workspace_db_path(name) \in sp.lance
         /\ sp' = [sp EXCEPT !.todo = @ \ {name}]
    /\ UNCHANGED spOthers

\* Lines 43-60: index_codebase is called and opens its writable index
\* (commands/index.rs:81); a failure to open it is returned and logged.
SpAutoIndexBegin ==
    /\ sp.pc = "auto" /\ sp.holding = <<>>
    /\ \E name \in sp.todo :
         /\ workspace_db_path(name) \notin sp.lance
         /\ LET got == open_writer(sp.handles, workspace_db_path(name))
            IN  sp' = IF got.ok
                      THEN [sp EXCEPT !.holding = <<name>>, !.handles = got.handles]
                      ELSE [sp EXCEPT !.todo = @ \ {name}, !.busy = 1]
    /\ UNCHANGED spOthers

\* index_codebase returns (with or without a table written); its index
\* is dropped.
SpAutoIndexEnd ==
    /\ sp.pc = "auto" /\ sp.holding # <<>>
    /\ \E wrote \in BOOLEAN :
         LET name == sp.holding[1]
             dir == workspace_db_path(name)
         IN  sp' = [sp EXCEPT !.holding = <<>>, !.todo = @ \ {name},
                              !.handles = drop_writer(@, dir),
                              !.lance = IF wrote THEN @ \cup {dir} ELSE @,
                              !.indexed_now = @ \cup {name}]
    /\ UNCHANGED spOthers

\* Line 72 to 94: the first loop is over, the second begins.
SpAutoDone ==
    /\ sp.pc = "auto" /\ sp.holding = <<>> /\ sp.todo = {}
    /\ sp' = [sp EXCEPT !.pc = "preinit", !.todo = workspaces_to_index(sp.config)]
    /\ UNCHANGED spOthers

\* Line 97: BM25Index::new(dir, false, ..) is evaluated.
SpPreInitOpen ==
    /\ sp.pc = "preinit" /\ sp.holding = <<>>
    /\ \E name \in sp.todo :
         LET got == open_writer(sp.handles, workspace_db_path(name))
         IN  sp' = IF got.ok
                   THEN [sp EXCEPT !.holding = <<name>>, !.handles = got.handles]
                   ELSE [sp EXCEPT !.todo = @ \ {name}, !.busy = 1]
    /\ UNCHANGED spOthers

\* Lines 97-99: the statement ends.
SpPreInitEnd ==
    /\ sp.pc = "preinit" /\ sp.holding # <<>>
    /\ sp' = [sp EXCEPT !.holding = <<>>, !.todo = @ \ {sp.holding[1]},
                        !.handles = preinit_dropped(@, workspace_db_path(sp.holding[1]))]
    /\ UNCHANGED spOthers

SpPreInitDone ==
    /\ sp.pc = "preinit" /\ sp.holding = <<>> /\ sp.todo = {}
    /\ sp' = [sp EXCEPT !.pc = "spawn"]
    /\ UNCHANGED spOthers

\* Lines 103-167: the enabled services are spawned.
SpSpawn ==
    /\ sp.pc = "spawn"
    /\ sp' = [sp EXCEPT
                 !.pc = "running",
                 !.mcp = IF sp.config.enable_mcp THEN "spawned" ELSE "none",
                 !.watchers = [name \in Workspaces |->
                                  IF sp.config.enable_watch /\ name \in workspaces_to_index(sp.config)
                                  THEN "spawned" ELSE "none"]]
    /\ UNCHANGED spOthers

\* watch_codebase opens its writable index (commands/watch.rs:40) and
\* keeps it while it watches; it returns an error when it cannot.
SpWatcherOpen ==
    /\ sp.pc = "running"
    /\ \E name \in Workspaces :
         /\ sp.watchers[name] = "spawned"
         /\ LET got == open_writer(sp.handles, workspace_db_path(name))
            IN  sp' = IF got.ok
                      THEN [sp EXCEPT !.watchers[name] = "watching", !.handles = got.handles]
                      ELSE [sp EXCEPT !.watchers[name] = "failed", !.busy = 1]
    /\ UNCHANGED spOthers

\* A watcher task ends (start_watcher returned); its index is dropped.
SpWatcherEnd ==
    /\ sp.pc = "running"
    /\ \E name \in Workspaces :
         /\ sp.watchers[name] = "watching"
         /\ sp' = [sp EXCEPT !.watchers[name] = "ended",
                             !.handles = drop_writer(@, workspace_db_path(name))]
    /\ UNCHANGED spOthers

\* The server loads a workspace's context on its first request
\* (workspace_manager.rs:122-144): a read-only index on config.db_path.
SpServerLoad ==
    /\ sp.pc = "running" /\ sp.config.enable_server
    /\ \E workspace_id \in Workspaces :
         /\ workspace_id \notin sp.contexts
         /\ sp' = [sp EXCEPT !.contexts = @ \cup {workspace_id},
                             !.handles = open_reader(@, context_db_path(workspace_id)),
                             !.server_handles = @ \cup {[dir |-> context_db_path(workspace_id),
                                                         workspace_id |-> workspace_id,
                                                         readonly |-> TRUE]}]
    /\ UNCHANGED spOthers

\* The MCP server builds its searcher on its first search
\* (commands/search.rs:92): a read-only index on config.db_path.
SpMcpInit ==
    /\ sp.pc = "running" /\ sp.mcp = "spawned"
    /\ sp' = [sp EXCEPT !.mcp = "searching", !.handles = open_reader(@, db_path)]
    /\ UNCHANGED spOthers

SpNext ==
    \/ SpAutoSkip
    \/ SpAutoIndexBegin
    \/ SpAutoIndexEnd
    \/ SpAutoDone
    \/ SpPreInitOpen
    \/ SpPreInitEnd
    \/ SpPreInitDone
    \/ SpSpawn
    \/ SpWatcherOpen
    \/ SpWatcherEnd
    \/ SpServerLoad
    \/ SpMcpInit

SpecStart == SpInit /\ [][SpNext]_vars

\* C29: every index directory has at most one writable handle open; no
\* attempt of the process to open one ever meets another of its own; and
\* the handles the server's contexts open are read-only.
C29_OneWriterPerDirectory ==
    /\ \A dir \in IndexDirs : sp.handles[dir].writers <= 1
    /\ sp.busy = 0
    /\ \A h \in sp.server_handles : h.readonly

\* After an auto-index run and the pre-initialisation of the same
\* directory, its watcher holds the writer while the server reads it.
C29_Witness ==
    /\ sp.pc = "running"
    /\ "default" \in sp.indexed_now
    /\ sp.watchers["default"] = "watching" /\ sp.watchers["w1"] = "watching"
    /\ sp.handles[db_path].writers = 1 /\ sp.handles[db_path].readers >= 1
    /\ sp.contexts # {}

(***************************************************************************)
(* One BM25Index handle on the index c4 (SpecHandle): opened writable or   *)
(* read-only, used, reloaded, dropped.  The handle's reader has            *)
(* ReloadPolicy::Manual: it sees what was committed when the handle was    *)
(* opened or last reloaded.                                                *)
(***************************************************************************)
MaxHandleCalls == 5      \* calls made through handles in one behaviour

\* The queries of the searches: a word of every function, a word of the
\* second function of a file alone.
HandleQueries == {<<"f">>, <<"g">>}

\* self.writer.as_ref().ok_or(anyhow!("Index is read-only"))? of
\* add_chunks, delete_file and commit; and a handle that always has one.
writer_of_any(handle) == [ok |-> TRUE, err |-> "none"]
writer_of(handle) ==
    IF handle.readonly THEN [ok |-> FALSE, err |-> "Index is read-only"]
    ELSE [ok |-> TRUE, err |-> "none"]

\* BM25Index::add_chunks, delete_file and commit through a handle.
handle_add_chunks(handle, index, chunks, workspace) ==
    IF ~writer_of(handle).ok THEN [ok |-> FALSE, err |-> writer_of(handle).err, index |-> index]
    ELSE [ok |-> TRUE, err |-> "none", index |-> BM25_add_chunks(index, chunks, workspace)]

handle_delete_file(handle, index, filename, workspace) ==
    IF ~writer_of(handle).ok THEN [ok |-> FALSE, err |-> writer_of(handle).err, index |-> index]
    ELSE [ok |-> TRUE, err |-> "none", index |-> BM25_delete_file(index, filename, workspace)]

handle_commit(handle, index) ==
    IF ~writer_of(handle).ok THEN [ok |-> FALSE, err |-> writer_of(handle).err, index |-> index]
    ELSE [ok |-> TRUE, err |-> "none", index |-> BM25_commit(index, TRUE)]

\* self.reader.searcher() of search (and get_searcher): the segments the
\* handle's reader loaded last; and a reader that follows every commit.
searcher_docs_live(handle, index) == index.committed
searcher_docs(handle, index) == handle.seen

NoHandleCall == [op |-> "none", ok |-> TRUE, err |-> "none", before |-> <<>>, results |-> <<>>,
                 query |-> <<>>, workspace |-> None]
\* A handle: open, readonly and seen (what its reader loaded) are the
\* program's; last (the latest call and its outcome), deleted (the files
\* delete_file has removed through it with no add_chunks of them since),
\* reloaded (those of them deleted before the latest reload) and epoch (the
\* number of commits made when the reader loaded) record its history.
NoHandle == [open |-> FALSE, readonly |-> FALSE, seen |-> <<>>, last |-> NoHandleCall,
             calls_left |-> MaxHandleCalls, deleted |-> {}, reloaded |-> {},
             commit_log |-> <<<<>>>>, epoch |-> 1]

BhInit ==
    /\ c4 = BM25_new(<<>>)
    /\ bh = NoHandle
    /\ ck_cfg = idx_chunker /\ ck_in = <<>> /\ ck_out = <<>> /\ ck_pc = "idle"
    /\ fs = <<>> /\ c3 = <<>>
    /\ run = <<>> /\ hist = <<>> /\ runs_left = 0 /\ nedits = 0 /\ fail_left = 0
    /\ srv = <<>> /\ sq = <<>> /\ sres = <<>>
    /\ opt = <<>> /\ st = <<>> /\ wm = <<>> /\ wt = <<>> /\ sp = <<>>

\* BM25Index::new(db_path, readonly, ..): a writer, when one is made,
\* starts from what is committed; the reader loads what is committed.
BhOpen ==
    /\ ~bh.open
    /\ \E readonly \in BOOLEAN :
         /\ bh' = [bh EXCEPT !.open = TRUE, !.readonly = readonly,
                             !.seen = c4.committed, !.last = NoHandleCall,
                             !.epoch = Len(bh.commit_log)]
         /\ c4' = IF readonly THEN c4 ELSE [c4 EXCEPT !.writer = c4.committed]
    /\ UNCHANGED bhOthers

BhAddChunks ==
    /\ bh.open /\ bh.calls_left > 0
    /\ \E path \in {P_a_rs, P_db_rs}, content \in {"fn", "two"}, workspace \in Workspaces :
         LET out == handle_add_chunks(bh, c4, chunk_file(idx_chunker, path, FileOf(content), 1), workspace)
             added == IF out.ok THEN {<<ReplaceBackslash(path), workspace>>} ELSE {}
         IN  /\ c4' = out.index
             /\ bh' = [bh EXCEPT !.calls_left = @ - 1,
                                 !.deleted = @ \ added, !.reloaded = @ \ added,
                                 !.last = [NoHandleCall EXCEPT !.op = "add_chunks", !.ok = out.ok,
                                               !.err = out.err, !.before = c4]]
    /\ UNCHANGED bhOthers

BhDeleteFile ==
    /\ bh.open /\ bh.calls_left > 0
    /\ \E path \in {P_a_rs, P_db_rs}, workspace \in Workspaces :
         LET out == handle_delete_file(bh, c4, ReplaceBackslash(path), workspace)
             gone == IF out.ok THEN {<<ReplaceBackslash(path), workspace>>} ELSE {}
         IN  /\ c4' = out.index
             /\ bh' = [bh EXCEPT !.calls_left = @ - 1,
                                 !.deleted = @ \cup gone, !.reloaded = @ \ gone,
                                 !.last = [NoHandleCall EXCEPT !.op = "delete_file", !.ok = out.ok,
                                               !.err = out.err, !.before = c4]]
    /\ UNCHANGED bhOthers

BhCommit ==
    /\ bh.open /\ bh.calls_left > 0
    /\ LET out == handle_commit(bh, c4)
       IN  /\ c4' = out.index
           /\ bh' = [bh EXCEPT !.calls_left = @ - 1,
                               !.commit_log = IF out.ok THEN Append(@, out.index.committed) ELSE @,
                               !.last = [NoHandleCall EXCEPT !.op = "commit", !.ok = out.ok,
                                             !.err = out.err, !.before = c4]]
    /\ UNCHANGED bhOthers

\* BM25Index::reload: self.reader.reload() loads what is committed.
BhReload ==
    /\ bh.open /\ bh.calls_left > 0
    /\ bh' = [bh EXCEPT !.calls_left = @ - 1,
                        !.seen = c4.committed,
                        !.epoch = Len(bh.commit_log),
                        !.reloaded = bh.deleted,
                        !.last = [NoHandleCall EXCEPT !.op = "reload", !.before = c4]]
    /\ UNCHANGED c4
    /\ UNCHANGED bhOthers

\* BM25Index::search: the reader's searcher, whatever the handle.
BhSearch ==
    /\ bh.open /\ bh.calls_left > 0
    /\ \E query \in HandleQueries, workspace \in Workspaces \cup {None} :
         bh' = [bh EXCEPT !.calls_left = @ - 1,
                          !.last = [NoHandleCall EXCEPT !.op = "search", !.before = c4,
                                        !.query = query, !.workspace = workspace,
                                        !.results = BM25_search(searcher_docs(bh, c4), query, 2, workspace)]]
    /\ UNCHANGED c4
    /\ UNCHANGED bhOthers

\* The handle is dropped; a writer's uncommitted operations go with it.
BhDrop ==
    /\ bh.open
    /\ bh' = [NoHandle EXCEPT !.calls_left = bh.calls_left, !.commit_log = bh.commit_log]
    /\ c4' = [c4 EXCEPT !.writer = c4.committed]
    /\ UNCHANGED bhOthers

BhNext ==
    \/ BhOpen
    \/ BhAddChunks
    \/ BhDeleteFile
    \/ BhCommit
    \/ BhReload
    \/ BhSearch
    \/ BhDrop

SpecHandle == BhInit /\ [][BhNext]_vars

\* C30: a call of add_chunks, delete_file or commit on a read-only handle
\* returns the read-only error and leaves the index as it was; a search on
\* it succeeds with the matches among what the handle's reader sees.
C30_ReadOnlyHandleRefusesWrites ==
    (bh.open /\ bh.readonly) =>
        /\ bh.last.op \in {"add_chunks", "delete_file", "commit"} =>
               /\ ~bh.last.ok
               /\ bh.last.err = "Index is read-only"
               /\ c4 = bh.last.before
        /\ bh.last.op = "search" =>
               /\ bh.last.ok
               /\ \A i \in 1..Len(bh.last.results) :
                      \E j \in 1..Len(c4.committed) : bh.last.results[i] = c4.committed[j]

\* A read-only handle on an index that holds documents, one of which a
\* search through it finds, and its add_chunks refused.
C30_Witness ==
    /\ bh.open /\ bh.readonly
    /\ c4.committed # <<>>
    /\ bh.last.op = "add_chunks" /\ ~bh.last.ok
    /\ BM25_search(bh.seen, <<"f">>, 2, None) # <<>>

\* C31: after delete_file(F, W) and then a reload of the handle's reader,
\* with no add_chunks of F in W since, a search in W returns no document
\* of F (so a query that matches only F's content returns zero rows).
C31_DeletedFileNotFoundAfterReload ==
    (bh.open /\ bh.last.op = "search" /\ bh.last.workspace \in Workspaces) =>
        \A i \in 1..Len(bh.last.results) :
            <<bh.last.results[i].filename, bh.last.workspace>> \notin bh.reloaded

C32_LaterUpdateRepairsLexicalStore ==
    (run.pc = "done" /\ run.update /\ ~hist.failed /\ hist.uncommitted) =>
        \A r \in RowsOf(c3, run.workspace) :
            \E d \in DocsOf(c4.committed, run.workspace) : d.filename = r.filename

\* The files the update run passed over because their stored mtime equals
\* the one on disk: visited, and never chunked.
SkippedUnchanged == IF run.update THEN run.visited_files \ hist.processed ELSE {}

\* C33: a file that an update run skips as unchanged is in visited_files,
\* is never in the run's stale list, is in none of the run's deletes, and
\* keeps in C3 and in the C4 writer the rows and documents it had when the
\* run began.
C33_SkippedFileIsVisitedNotStale ==
    \A p \in IdxPaths :
        (run.update /\ fs[p].present /\ p \in DOMAIN run.existing_files
            /\ p \in hist.walked /\ p \notin Range(run.walker) /\ p \notin hist.processed
            /\ ~filtered_out(p, FileOf(fs[p].content))
            /\ run.existing_files[p] = fs[p].mtime) =>
                /\ p \in run.visited_files
                /\ p \notin Range(run.stale_files)
                /\ p \notin hist.deleted
                /\ {r \in Range(c3) : r.filename = p} = {r \in Range(hist.c3_0) : r.filename = p}
                /\ {d \in Range(c4.writer) : d.filename = p} = {d \in Range(hist.c4_0) : d.filename = p}

\* An update run that has finished, skipped an unchanged file whose rows
\* are still in C3, and deleted a stale file in its cleanup.
C33_Witness ==
    /\ run.pc = "done" /\ run.update
    /\ hist.deleted # {}
    /\ \E p \in SkippedUnchanged :
          /\ fs[p].present
          /\ p \notin hist.deleted
          /\ \E r \in Range(c3) : r.filename = p

\* C36: the name under which an index run looks a file up in
\* existing_files, records it in visited_files and queues its deletes is
\* the filename stored on the file's chunks; so a file whose rows the run
\* began with and whose mtime is unchanged is skipped, whatever its path.
C36_LookupNameIsStoredName ==
    /\ \A p \in run.visited_files :
          \A i \in 1..Len(CurrentChunks(p)) : CurrentChunks(p)[i].filename = p
    /\ \A p \in hist.processed :
          run.update =>
              ~\E r \in Range(hist.c3_0) :
                  r.filename = StoredName(p) /\ r.last_modified = fs[p].mtime

\* C34: whenever the watcher's writer holds a change of the lexical store
\* that is not committed, the change is committed at some later time (and
\* a reader that reloads then sees it).
C34_WatcherChangesCommitted ==
    (c4.writer # c4.committed) ~> (c4.committed = c4.writer)

\* C40: when index_file ran for a supported file and opening or embedding
\* it failed, the call returned Ok (nothing was logged by the loop) and
\* neither store holds a chunk of the file.
C40_FailedIndexFileLeavesNoChunks ==
    (/\ wt.last.did = "index"
     /\ get_language(Extension(wt.last.path))
     /\ wt.last.fl.open \/ wt.last.fl.embed) =>
        /\ ~wt.last.logged
        /\ HeldUnder(c3, wt.last.path) = <<>>
        /\ HeldUnder(c4.writer, wt.last.path) = <<>>

C39_FailedLoadLeavesNothingBehind ==
    /\ [][\A t \in Tasks :
            (wm.tasks[t].pc = "load" /\ wm'.tasks[t].pc = "returned" /\ ~wm'.tasks[t].ok) =>
                /\ wm'.workspaces = wm.workspaces
                /\ wm'.inserts = wm.inserts
                /\ \A w \in Workspaces : wm'.loading_locks[w].held_by # t]_vars
    /\ [][\A t \in Tasks :
            (/\ wm.tasks[t].pc = "recheck" /\ wm'.tasks[t].pc # "recheck"
             /\ wm.workspaces[wm.tasks[t].workspace_id] = 0) =>
                wm'.tasks[t].pc = "load"]_vars
    /\ \A t \in Tasks : (wm.tasks[t].pc = "lock") ~> (wm.tasks[t].pc # "lock")

\* A workspace whose load failed once and that is cached all the same, a
\* caller that had to wait having been given the context.
C39_Witness ==
    \E w \in Workspaces, t \in Tasks :
        /\ wm.load_errs[w] > 0
        /\ wm.workspaces[w] # 0
        /\ wm.loading_locks[w].held_by = 0
        /\ wm.tasks[t].pc = "returned" /\ wm.tasks[t].ok /\ wm.tasks[t].missed
        /\ wm.tasks[t].workspace_id = w

\* C37: for every workspace whose context the server has loaded, the
\* directory the auto-index run wrote the workspace's chunks to, and the
\* one its watcher writes to, is the directory of the stores the server
\* opened for it.
C37_WritersAndServerShareStore ==
    \A h \in sp.server_handles :
        (h.workspace_id \in sp.indexed_now \/ sp.watchers[h.workspace_id] = "watching") =>
            h.dir = workspace_db_path(h.workspace_id)

====
